---- MODULE Spec2Model ----
(***************************************************************************)
(* Wallet backend: the wallets and transactions tables, the wallet service *)
(* (createWallet, setPrimaryWallet, updateWalletBalance, sendUSDC), the    *)
(* backup service (importWallet, restoreFromBackup), the tenant limit      *)
(* middleware and the transaction lookup route.  Every `await query(..)`   *)
(* and every chain adapter call is one atomic step of the request that     *)
(* issues it; requests of different connections interleave between steps.  *)
(***************************************************************************)
EXTENDS Integers, Sequences, FiniteSets, TLC

VARIABLES wallets, txs, chain, pc, req, loc, res, today, db, posts, env

vars == <<wallets, txs, chain, pc, req, loc, res, today, db, posts, env>>

(***************************************************************************)
(* Bounds and input domains                                                *)
(***************************************************************************)
Null == "null"

MaxWallets == 2
MaxBackup == 2
MaxBalance == 1
FundedBalance == 2
MaxAmount == 2
MaxTx == 4
MaxConfirmations == 2
MaxContacts == 2
MaxDeliveries == 2
DaysPerMonth == 2

Procs == {"c1", "c2"}
Users == {"u1", "u2"}
Names == {"n1", "n2"}
TenantIds == {"t1"}
Keys == {"k1"}
BadKey == "k0"

WalletIds == 1..MaxWallets
ContactIds == 1..MaxContacts
Balances == 0..MaxBalance
\* amounts a request may carry; 0 stands for one that isFloat({min: 0.000001}) refuses
Amounts == 0..MaxAmount
\* hashes a lookup may carry; 0 stands for one that is not 66 characters long
Hashes == 0..MaxTx
\* a recipient that ethers.isAddress accepts, and one that it refuses
GoodAddress == "0xRecipient"
BadAddress == "not-an-address"
ToAddresses == {GoodAddress, BadAddress}

\* address derived from an imported private key (new ethers.Wallet(privateKey).address)
AddrOf(k) == IF k = "k1" THEN 1 ELSE 2
\* addresses of the wallets a backup file may hold
BackupAddrs == {1, 2}

\* the tenant whose host the client application of a user talks to
TenantOf(u) == IF u = "u1" THEN "t1" ELSE Null

BackupEntries == [walletName : Names, address : BackupAddrs]
\* backup files as createBackup writes them: the wallets of one user, which differ
\* pairwise in name and in address
Backups ==
  {b \in UNION {[1..n -> BackupEntries] : n \in 1..MaxBackup} :
     \A i, j \in DOMAIN b :
       (i # j) => (b[i].walletName # b[j].walletName /\ b[i].address # b[j].address)}

(***************************************************************************)
(* Request, local and response records                                     *)
(***************************************************************************)
\* an encrypted backup: the ciphertext as the plaintext and key it was made of,
\* the auth tag as the key and plaintext it authenticates and its length in bytes
NoBlob == [encrypted |-> [data |-> "", key |-> <<>>], salt |-> "", iv |-> "",
           authTag |-> [key |-> <<>>, data |-> "", bytes |-> 0]]

NoReq == [op |-> "none", user |-> Null, tenant |-> Null, walletName |-> Null,
          key |-> Null, walletId |-> 0, backup |-> <<>>,
          toAddress |-> "", amount |-> 0, txHash |-> 0, contactId |-> 0,
          clientId |-> Null, event |-> "", host |-> <<>>, feature |-> "",
          token |-> [kind |-> "none", userId |-> Null], apiKey |-> "", apiSecret |-> "",
          data |-> "", password |-> "", twoFactorCode |-> ""]

NoLoc == [isPrimary |-> FALSE, walletId |-> 0, retPrimary |-> FALSE,
          balance |-> 0, i |-> 0, restored |-> 0,
          day |-> 0, limits |-> "none", chainCalls |-> {}, txHash |-> 0,
          status |-> "none", confirmations |-> 0,
          hooks |-> <<>>, done |-> {}, posted |-> FALSE, response |-> 0,
          stale |-> FALSE, latest |-> 0, client |-> 0, keyId |-> 0,
          blob |-> NoBlob, changed |-> "none", ethBalance |-> -1,
          second |-> FALSE, present |-> FALSE]

\* the response sent by the last step, if it sent one; internal tells that its
\* body carries the message of an error thrown by the database driver or the
\* chain library
NoRes == [op |-> "none", code |-> 0, message |-> "", walletId |-> 0, isPrimary |-> FALSE,
          primaries |-> 0, rows |-> 0, restoredCount |-> 0, totalInBackup |-> 0,
          errors |-> {}, limit |-> 0, used |-> 0, remaining |-> 0,
          chainCalls |-> {}, txHash |-> 0, status |-> "none", target |-> 0,
          next |-> FALSE, client |-> Null, internal |-> FALSE, value |-> "",
          confirmations |-> 0, ethBalance |-> -1, token |-> Null]

(***************************************************************************)
(* Tables                                                                  *)
(***************************************************************************)
\* the tables other than wallets and transactions, empty
NoDb == [contacts |-> {}, webhooks |-> <<>>, webhook_logs |-> <<>>, tenants |-> <<>>,
         users |-> {}, api_keys |-> <<>>]

\* a row of table wallets with the column defaults of the schema
WalletRow(u, t, n, a, p) ==
  [user_id |-> u, white_label_client_id |-> t, wallet_name |-> n, address |-> a,
   is_primary |-> p, balance_usdc |-> 0, status |-> "active"]

WalletsOf(ws, u) == {i \in DOMAIN ws : ws[i].user_id = u}

PrimariesOf(ws, u) == {i \in WalletsOf(ws, u) : ws[i].is_primary}

ActiveOf(ws, u) == {i \in WalletsOf(ws, u) : ws[i].status = "active"}

\* SELECT id FROM wallets WHERE user_id = $1 AND wallet_name = $2
ExistingWallet(ws, u, n) ==
  {i \in DOMAIN ws : ws[i].user_id = u /\ ws[i].wallet_name = n}

\* UNIQUE(user_id, wallet_name) of table wallets
UniqueUserNameNoCheck(ws, u, n) == TRUE

UniqueUserName(ws, u, n) ==
  \A i \in DOMAIN ws : ~(ws[i].user_id = u /\ ws[i].wallet_name = n)

\* SELECT COUNT(*) ... WHERE user_id = $1; isPrimary = (count === "0")
IsFirstWalletAlways(ws, u) == TRUE

IsFirstWallet(ws, u) == Cardinality(WalletsOf(ws, u)) = 0

\* blockchainService.generateWallet: the address of a new random key pair, which
\* no stored wallet has
GenerateWallet(ws) == 10 + Len(ws) + 1

\* rows a request in flight may still insert
PendingInserts(q) ==
  IF req[q].op \in {"createWallet", "importWallet"}
    THEN IF pc[q] \in {"cw_existing", "cw_count", "cw_insert",
                       "iw_existing", "iw_count", "iw_insert"} THEN 1 ELSE 0
    ELSE IF req[q].op = "restoreFromBackup"
      THEN Len(req[q].backup) - loc[q].i + 1
      ELSE 0

RECURSIVE SumPending(_)
SumPending(S) ==
  IF S = {} THEN 0
  ELSE LET q == CHOOSE x \in S : TRUE IN PendingInserts(q) + SumPending(S \ {q})

Room(n) == Len(wallets) + SumPending(Procs) + n <= MaxWallets

(***************************************************************************)
(* Responses                                                               *)
(***************************************************************************)
RespondAs(p, op, r) ==
  /\ pc' = [pc EXCEPT ![p] = "idle"]
  /\ req' = [req EXCEPT ![p] = NoReq]
  /\ loc' = [loc EXCEPT ![p] = NoLoc]
  /\ res' = [r EXCEPT !.op = op]

Respond(p, r) == RespondAs(p, req[p].op, r)

Fail(p, code, msg) == Respond(p, [NoRes EXCEPT !.code = code, !.message = msg])

FailAs(p, op, code, msg) ==
  RespondAs(p, op, [NoRes EXCEPT !.code = code, !.message = msg])

\* the refusal of a request that named the wallet, transaction or contact `id`
NotFound(p, code, msg, id) ==
  Respond(p, [NoRes EXCEPT !.code = code, !.message = msg, !.target = id])

\* Connections keep nothing between requests, so a request that arrives while
\* every connection is idle is taken on the first one.
Accepts(p) ==
  /\ pc[p] = "idle"
  /\ (\A q \in Procs : pc[q] = "idle") => p = "c1"

Begin(p, r, label) ==
  /\ Accepts(p)
  /\ pc' = [pc EXCEPT ![p] = label]
  /\ req' = [req EXCEPT ![p] = r]
  /\ loc' = [loc EXCEPT ![p] = NoLoc]
  /\ res' = NoRes

Goto(p, label) == pc' = [pc EXCEPT ![p] = label] /\ res' = NoRes

(***************************************************************************)
(* WalletService.createWallet                                              *)
(***************************************************************************)
StartCreateWallet(p) ==
  /\ Room(1)
  /\ \E u \in Users, n \in Names :
       Begin(p, [NoReq EXCEPT !.op = "createWallet", !.user = u,
                              !.walletName = n, !.tenant = TenantOf(u)], "cw_existing")
  /\ UNCHANGED <<wallets, txs, chain, today, db, posts, env>>

CreateWalletExisting(p) ==
  /\ pc[p] = "cw_existing"
  /\ IF ExistingWallet(wallets, req[p].user, req[p].walletName) # {}
       THEN Fail(p, 400, "Wallet with this name already exists")
       ELSE /\ Goto(p, "cw_count")
            /\ UNCHANGED <<req, loc>>
  /\ UNCHANGED <<wallets, txs, chain, today, db, posts, env>>

CreateWalletCount(p) ==
  /\ pc[p] = "cw_count"
  /\ Goto(p, "cw_insert")
  /\ loc' = [loc EXCEPT ![p].isPrimary = IsFirstWallet(wallets, req[p].user)]
  /\ UNCHANGED <<wallets, txs, chain, req, today, db, posts, env>>

CreateWalletInsert(p) ==
  /\ pc[p] = "cw_insert"
  /\ IF ~UniqueUserName(wallets, req[p].user, req[p].walletName)
       THEN /\ Fail(p, 400, "duplicate key value violates unique constraint")
            /\ UNCHANGED wallets
       ELSE /\ wallets' = Append(wallets, WalletRow(req[p].user, req[p].tenant,
                                   req[p].walletName, GenerateWallet(wallets), loc[p].isPrimary))
            /\ Goto(p, "ub_select")
            /\ loc' = [loc EXCEPT ![p].walletId = Len(wallets) + 1,
                                  ![p].retPrimary = wallets'[Len(wallets) + 1].is_primary]
            /\ UNCHANGED req
  /\ UNCHANGED <<txs, chain, today, db, posts, env>>

(***************************************************************************)
(* WalletService.updateWalletBalance                                       *)
(***************************************************************************)
UpdateBalanceSelect(p) ==
  /\ pc[p] = "ub_select"
  /\ IF loc[p].walletId \notin DOMAIN wallets
       THEN Fail(p, 400, "Wallet not found")
       ELSE /\ Goto(p, "ub_chain")
            /\ UNCHANGED <<req, loc>>
  /\ UNCHANGED <<wallets, txs, chain, today, db, posts, env>>

\* blockchainService.getUSDCBalance: the balance of the address at the time of the
\* call, or the call fails.  History kept for the calls in flight: a call that
\* has read the balance of the same wallet and not yet written it is marked
\* stale, with the balance this later query returned.
UpdateBalanceChain(p) ==
  /\ pc[p] = "ub_chain"
  /\ \/ \E b \in Balances :
          /\ Goto(p, "ub_update")
          /\ loc' = [q \in Procs |->
                       IF q = p
                         THEN [loc[q] EXCEPT !.balance = b, !.stale = FALSE, !.latest = 0]
                       ELSE IF pc[q] = "ub_update" /\ loc[q].walletId = loc[p].walletId
                         THEN [loc[q] EXCEPT !.stale = TRUE, !.latest = b]
                       ELSE loc[q]]
          /\ UNCHANGED req
     \/ Fail(p, 400, "Failed to get USDC balance")
  /\ UNCHANGED <<wallets, txs, chain, today, db, posts, env>>

UpdateBalanceUpdate(p) ==
  /\ pc[p] = "ub_update"
  /\ wallets' = [wallets EXCEPT ![loc[p].walletId].balance_usdc = loc[p].balance]
  /\ IF req[p].op = "createWallet"
       THEN Respond(p, [NoRes EXCEPT !.code = 201, !.walletId = loc[p].walletId,
                                     !.isPrimary = loc[p].retPrimary])
       ELSE Respond(p, [NoRes EXCEPT !.code = 200, !.walletId = loc[p].walletId])
  /\ UNCHANGED <<txs, chain, today, db, posts, env>>

(***************************************************************************)
(* BackupService.importWallet                                              *)
(***************************************************************************)
StartImportWallet(p) ==
  /\ Room(1)
  /\ \E u \in Users, n \in Names, k \in Keys \cup {BadKey} :
       IF k = BadKey
         THEN /\ Accepts(p)
              /\ FailAs(p, "importWallet", 400, "Invalid private key")
         ELSE Begin(p, [NoReq EXCEPT !.op = "importWallet", !.user = u,
                                     !.walletName = n, !.key = k,
                                     !.tenant = TenantOf(u)], "iw_existing")
  /\ UNCHANGED <<wallets, txs, chain, today, db, posts, env>>

ImportWalletExisting(p) ==
  /\ pc[p] = "iw_existing"
  /\ IF \E i \in DOMAIN wallets : wallets[i].address = AddrOf(req[p].key)
       THEN Fail(p, 400, "Wallet with this address already exists")
       ELSE /\ Goto(p, "iw_count")
            /\ UNCHANGED <<req, loc>>
  /\ UNCHANGED <<wallets, txs, chain, today, db, posts, env>>

ImportWalletCount(p) ==
  /\ pc[p] = "iw_count"
  /\ Goto(p, "iw_insert")
  /\ loc' = [loc EXCEPT ![p].isPrimary = IsFirstWallet(wallets, req[p].user)]
  /\ UNCHANGED <<wallets, txs, chain, req, today, db, posts, env>>

ImportWalletInsert(p) ==
  /\ pc[p] = "iw_insert"
  /\ IF ~UniqueUserName(wallets, req[p].user, req[p].walletName)
       THEN /\ Fail(p, 400, "duplicate key value violates unique constraint")
            /\ UNCHANGED wallets
       ELSE /\ wallets' = Append(wallets, WalletRow(req[p].user, req[p].tenant,
                                   req[p].walletName, AddrOf(req[p].key), loc[p].isPrimary))
            /\ Respond(p, [NoRes EXCEPT !.code = 201, !.walletId = Len(wallets) + 1,
                             !.isPrimary = wallets'[Len(wallets) + 1].is_primary])
  /\ UNCHANGED <<txs, chain, today, db, posts, env>>

(***************************************************************************)
(* BackupService.restoreFromBackup                                         *)
(***************************************************************************)
StartRestoreFromBackup(p) ==
  /\ Accepts(p)
  /\ \/ FailAs(p, "restoreFromBackup", 400,
                "Failed to decrypt backup - invalid password or corrupted data")
     \/ FailAs(p, "restoreFromBackup", 400, "Unsupported backup version")
     \/ \E u \in Users, b \in Backups :
          /\ Room(Len(b))
          /\ pc' = [pc EXCEPT ![p] = "rs_existing"]
          /\ req' = [req EXCEPT ![p] = [NoReq EXCEPT !.op = "restoreFromBackup",
                                                     !.user = u, !.backup = b,
                                                     !.tenant = TenantOf(u)]]
          /\ loc' = [loc EXCEPT ![p] = [NoLoc EXCEPT !.i = 1]]
          /\ res' = NoRes
  /\ UNCHANGED <<wallets, txs, chain, today, db, posts, env>>

\* the backup file of a user with two wallets
SameBackup == <<[walletName |-> "n1", address |-> 1], [walletName |-> "n2", address |-> 2]>>

\* the entries of backup b whose address no stored wallet has
Missing(ws, b) ==
  {k \in DOMAIN b : \A i \in DOMAIN ws : ws[i].address # b[k].address}

\* a restore of that one file.  History kept for the call: second tells that the
\* response before it was that of a completed restore, present that every
\* address of the file was stored when the call began.
StartRestoreSame(p) ==
  /\ Accepts(p)
  /\ Len(wallets) + Cardinality(Missing(wallets, SameBackup)) <= MaxWallets
  /\ \E u \in Users :
       /\ pc' = [pc EXCEPT ![p] = "rs_existing"]
       /\ req' = [req EXCEPT ![p] = [NoReq EXCEPT !.op = "restoreFromBackup",
                                                  !.user = u, !.backup = SameBackup,
                                                  !.tenant = TenantOf(u)]]
       /\ loc' = [loc EXCEPT ![p] =
                    [NoLoc EXCEPT !.i = 1,
                                  !.second = (res.op = "restoreFromBackup" /\ res.code = 200),
                                  !.present = (Missing(wallets, SameBackup) = {})]]
       /\ res' = NoRes
  /\ UNCHANGED <<wallets, txs, chain, today, db, posts, env>>

\* the loop left after one entry
RestoreStopsOnFailure(p, restored) ==
  Respond(p, [NoRes EXCEPT !.code = 200, !.restoredCount = restored,
                           !.totalInBackup = Len(req[p].backup)])

\* end of one iteration of the for loop: next entry, or the return value
RestoreContinue(p, restored) ==
  IF loc[p].i = Len(req[p].backup)
    THEN Respond(p, [NoRes EXCEPT !.code = 200, !.restoredCount = restored,
                                  !.totalInBackup = Len(req[p].backup)])
    ELSE /\ Goto(p, "rs_existing")
         /\ loc' = [loc EXCEPT ![p].i = loc[p].i + 1, ![p].restored = restored]
         /\ UNCHANGED req

RestoreExisting(p) ==
  /\ pc[p] = "rs_existing"
  /\ IF \E i \in DOMAIN wallets : wallets[i].address = req[p].backup[loc[p].i].address
       THEN RestoreContinue(p, loc[p].restored)
       ELSE /\ Goto(p, "rs_insert")
            /\ UNCHANGED <<req, loc>>
  /\ UNCHANGED <<wallets, txs, chain, today, db, posts, env>>

RestoreInsert(p) ==
  /\ pc[p] = "rs_insert"
  /\ LET e == req[p].backup[loc[p].i] IN
       IF ~UniqueUserName(wallets, req[p].user, e.walletName)
         THEN /\ RestoreContinue(p, loc[p].restored)
              /\ UNCHANGED wallets
         ELSE /\ wallets' = Append(wallets, WalletRow(req[p].user, req[p].tenant,
                                     e.walletName, e.address, FALSE))
              /\ RestoreContinue(p, loc[p].restored + 1)
  /\ UNCHANGED <<txs, chain, today, db, posts, env>>

(***************************************************************************)
(* WalletService.setPrimaryWallet                                          *)
(***************************************************************************)
StartSetPrimaryWallet(p) ==
  /\ \E u \in Users, w \in WalletIds :
       Begin(p, [NoReq EXCEPT !.op = "setPrimaryWallet", !.user = u, !.walletId = w],
             "sp_verify")
  /\ UNCHANGED <<wallets, txs, chain, today, db, posts, env>>

SetPrimaryVerify(p) ==
  /\ pc[p] = "sp_verify"
  /\ IF req[p].walletId \in WalletsOf(wallets, req[p].user)
       THEN /\ Goto(p, "sp_clear")
            /\ UNCHANGED <<req, loc>>
       ELSE NotFound(p, 400, "Wallet not found or access denied", req[p].walletId)
  /\ UNCHANGED <<wallets, txs, chain, today, db, posts, env>>

SetPrimaryClear(p) ==
  /\ pc[p] = "sp_clear"
  /\ wallets' = [i \in DOMAIN wallets |->
                   IF wallets[i].user_id = req[p].user
                     THEN [wallets[i] EXCEPT !.is_primary = FALSE]
                     ELSE wallets[i]]
  /\ Goto(p, "sp_set")
  /\ UNCHANGED <<txs, chain, req, loc, today, db, posts, env>>

SetPrimarySet(p) ==
  /\ pc[p] = "sp_set"
  /\ wallets' = [i \in DOMAIN wallets |->
                   IF i = req[p].walletId
                     THEN [wallets[i] EXCEPT !.is_primary = TRUE]
                     ELSE wallets[i]]
  /\ Respond(p, [NoRes EXCEPT !.code = 200])
  /\ UNCHANGED <<txs, chain, today, db, posts, env>>

(***************************************************************************)
(* WalletService.getUserWallets                                            *)
(***************************************************************************)
StartGetUserWallets(p) ==
  /\ \E u \in Users :
       Begin(p, [NoReq EXCEPT !.op = "getUserWallets", !.user = u], "guw_select")
  /\ UNCHANGED <<wallets, txs, chain, today, db, posts, env>>

GetUserWallets(p) ==
  /\ pc[p] = "guw_select"
  /\ LET rows == {i \in WalletsOf(wallets, req[p].user) : wallets[i].status = "active"} IN
       Respond(p, [NoRes EXCEPT !.code = 200, !.rows = Cardinality(rows),
                     !.primaries = Cardinality({i \in rows : wallets[i].is_primary})])
  /\ UNCHANGED <<wallets, txs, chain, today, db, posts, env>>

(***************************************************************************)
(* Tenant configuration (white_label_clients.features_config)              *)
(***************************************************************************)
DailyLimit == 2
MonthlyLimit == 3
DefaultDailyLimit == 10000
DefaultMonthlyLimit == 100000

FeaturesConfig(t) ==
  [features |-> {"send", "receive", "transaction_history", "multiple_wallets"},
   dailyTransactionLimit |-> DailyLimit,
   monthlyTransactionLimit |-> MonthlyLimit]

\* x || d
OrDefault(x, d) == IF x = 0 THEN d ELSE x

MonthOf(d) == d \div DaysPerMonth

RECURSIVE SumAmount(_, _)
SumAmount(ts, S) ==
  IF S = {} THEN 0
  ELSE LET i == CHOOSE x \in S : TRUE IN ts[i].amount + SumAmount(ts, S \ {i})

\* SELECT COALESCE(SUM(t.amount), 0) ... t.created_at >= today AND < tomorrow
DailyTotal(ts, ws, u, t, d) ==
  SumAmount(ts, {i \in DOMAIN ts :
                   /\ ws[ts[i].wallet_id].user_id = u
                   /\ ws[ts[i].wallet_id].white_label_client_id = t
                   /\ ts[i].created_at = d
                   /\ ts[i].status # "failed"})

\* SELECT COALESCE(SUM(t.amount), 0) ... t.created_at >= monthStart AND < monthEnd
MonthlyTotal(ts, ws, u, t, d) ==
  SumAmount(ts, {i \in DOMAIN ts :
                   /\ ws[ts[i].wallet_id].user_id = u
                   /\ ws[ts[i].wallet_id].white_label_client_id = t
                   /\ MonthOf(ts[i].created_at) = MonthOf(d)
                   /\ ts[i].status # "failed"})

\* dailyTotal + Number.parseFloat(amount) > dailyLimit
LimitExceededIgnoringAmount(total, amount, limit) == total > limit

LimitExceeded(total, amount, limit) == total + amount > limit

\* blockchainService.isValidAddress
IsValidAddressAlways(a) == TRUE

IsValidAddress(a) == a = GoodAddress

\* currentBalance < Number.parseFloat(amount)
InsufficientBalanceNever(balance, amount) == FALSE

InsufficientBalance(balance, amount) == balance < amount

(***************************************************************************)
(* POST /:walletId/send: checkFeaturePermission("send"),                   *)
(* checkTransactionLimits, the validators, WalletService.sendUSDC          *)
(***************************************************************************)
\* sends in flight that may still submit a transfer
PendingTransfers ==
  Cardinality({q \in Procs : req[q].op = "send" /\ pc[q] # "su_insert"})

\* the validators of the route, then sendUSDC up to its first query
SendValidate(p, r, limits) ==
  IF ~IsValidAddress(r.toAddress) \/ r.amount = 0
    THEN RespondAs(p, "send",
           [NoRes EXCEPT !.code = 400, !.message = "Validation failed",
                         !.errors = (IF IsValidAddress(r.toAddress) THEN {}
                                     ELSE {"toAddress"})
                                    \cup (IF r.amount = 0 THEN {"amount"} ELSE {})])
    ELSE IF ~IsValidAddress(r.toAddress)
      THEN FailAs(p, "send", 400, "Invalid recipient address")
      ELSE /\ pc' = [pc EXCEPT ![p] = "su_wallet"]
           /\ req' = [req EXCEPT ![p] = r]
           /\ loc' = [loc EXCEPT ![p] = [NoLoc EXCEPT !.limits = limits]]
           /\ res' = NoRes

\* a client whose features_config is NULL
NoConfigTenant == "t2"

\* if (!clientConfig || !userId) return next(); if (!featuresConfig) return next()
SkipsLimits(t) == t = Null \/ t = NoConfigTenant

\* checkTransactionLimits up to its first query, for request r
LimitsEntry(p, r) ==
  IF SkipsLimits(r.tenant)
    THEN SendValidate(p, r, "none")
    ELSE /\ pc' = [pc EXCEPT ![p] = "tl_daily"]
         /\ req' = [req EXCEPT ![p] = r]
         /\ loc' = [loc EXCEPT ![p] = [NoLoc EXCEPT !.day = today]]
         /\ res' = NoRes

\* a send from the first wallet that reached checkTransactionLimits, for every
\* client configuration the middleware can be handed
StartCheckTransactionLimits(p) ==
  /\ Accepts(p)
  /\ chain + PendingTransfers < MaxTx
  /\ \E u \in Users, t \in {Null, NoConfigTenant} \cup TenantIds, m \in Amounts :
       LimitsEntry(p, [NoReq EXCEPT !.op = "send", !.user = u, !.tenant = t,
                                    !.walletId = 1, !.toAddress = GoodAddress,
                                    !.amount = m])
  /\ UNCHANGED <<wallets, txs, chain, today, db, posts, env>>

StartSend(p) ==
  /\ Accepts(p)
  /\ chain + PendingTransfers < MaxTx
  /\ \E u \in Users, w \in WalletIds, a \in ToAddresses, m \in Amounts :
       LET t == TenantOf(u)
           r == [NoReq EXCEPT !.op = "send", !.user = u, !.tenant = t,
                              !.walletId = w, !.toAddress = a, !.amount = m]
       IN IF t # Null /\ "send" \notin FeaturesConfig(t).features
            THEN FailAs(p, "send", 403, "Feature 'send' is not enabled for this client")
            ELSE LimitsEntry(p, r)
  /\ UNCHANGED <<wallets, txs, chain, today, db, posts, env>>

LimitsDaily(p) ==
  /\ pc[p] = "tl_daily"
  /\ LET limit == OrDefault(FeaturesConfig(req[p].tenant).dailyTransactionLimit,
                            DefaultDailyLimit)
         total == DailyTotal(txs, wallets, req[p].user, req[p].tenant, loc[p].day)
     IN IF LimitExceeded(total, req[p].amount, limit)
          THEN Respond(p, [NoRes EXCEPT !.code = 400,
                             !.message = "Daily transaction limit would be exceeded",
                             !.limit = limit, !.used = total,
                             !.remaining = limit - total])
          ELSE /\ Goto(p, "tl_monthly")
               /\ UNCHANGED <<req, loc>>
  /\ UNCHANGED <<wallets, txs, chain, today, db, posts, env>>

LimitsMonthly(p) ==
  /\ pc[p] = "tl_monthly"
  /\ LET limit == OrDefault(FeaturesConfig(req[p].tenant).monthlyTransactionLimit,
                            DefaultMonthlyLimit)
         total == MonthlyTotal(txs, wallets, req[p].user, req[p].tenant, loc[p].day)
     IN IF LimitExceeded(total, req[p].amount, limit)
          THEN Respond(p, [NoRes EXCEPT !.code = 400,
                             !.message = "Monthly transaction limit would be exceeded",
                             !.limit = limit, !.used = total,
                             !.remaining = limit - total])
          ELSE SendValidate(p, req[p], "passed")
  /\ UNCHANGED <<wallets, txs, chain, today, db, posts, env>>

\* the catch answering with an error
LimitsCatchRejects(p) ==
  /\ pc[p] = "tl_catch"
  /\ Fail(p, 500, "Internal server error")
  /\ UNCHANGED <<wallets, txs, chain, today, db, posts, env>>

\* catch (error) { logger.error(...); next() }: continue without limit check
LimitsCatch(p) ==
  /\ pc[p] = "tl_catch"
  /\ SendValidate(p, req[p], "skipped")
  /\ UNCHANGED <<wallets, txs, chain, today, db, posts, env>>

SendWallet(p) ==
  /\ pc[p] = "su_wallet"
  /\ IF req[p].walletId \notin ActiveOf(wallets, req[p].user)
       THEN NotFound(p, 400, "Wallet not found or access denied", req[p].walletId)
       ELSE IF InsufficientBalance(wallets[req[p].walletId].balance_usdc, req[p].amount)
         THEN Fail(p, 400, "Insufficient USDC balance")
         ELSE /\ Goto(p, "su_gas")
              /\ loc' = [loc EXCEPT ![p].walletId = req[p].walletId]
              /\ UNCHANGED req
  /\ UNCHANGED <<wallets, txs, chain, today, db, posts, env>>

\* the minimum ETH for gas, 0.001, in units of 0.0005 ETH
MinGas == 2

\* what getETHBalance may report, in the same units; ethBalance of loc and res
\* is the balance reported to the call, -1 if none was
GasBalances == 0..MinGas

\* the gas check left out
InsufficientGasNever(eth) == FALSE

\* Number.parseFloat(ethBalance.balance) < 0.001
InsufficientGas(eth) == eth < MinGas

\* blockchainService.getETHBalance: a balance is reported, or the call fails
SendGas(p) ==
  /\ pc[p] = "su_gas"
  /\ \/ \E eth \in GasBalances :
          IF InsufficientGas(eth)
            THEN Respond(p, [NoRes EXCEPT !.code = 400,
                               !.message = "Insufficient ETH balance for gas fees",
                               !.ethBalance = eth,
                               !.chainCalls = loc[p].chainCalls \cup {"getETHBalance"}])
            ELSE /\ Goto(p, "su_transfer")
                 /\ loc' = [loc EXCEPT ![p].chainCalls = @ \cup {"getETHBalance"},
                                       ![p].ethBalance = eth]
                 /\ UNCHANGED req
     \/ Respond(p, [NoRes EXCEPT !.code = 400,
                      !.message = "Failed to get ETH balance",
                      !.chainCalls = loc[p].chainCalls \cup {"getETHBalance"}])
  /\ UNCHANGED <<wallets, txs, chain, today, db, posts, env>>

\* blockchainService.sendUSDC: the transfer is accepted and its hash returned, or
\* the call fails, with the transfer not submitted or (a lost reply) submitted.
\* It rethrows as `Failed to send USDC: ${error.message}`, which the catch of the
\* route puts in the body as message: error.message.
SendTransfer(p) ==
  /\ pc[p] = "su_transfer"
  /\ \/ /\ chain' = chain + 1
        /\ Goto(p, "su_insert")
        /\ loc' = [loc EXCEPT ![p].chainCalls = @ \cup {"sendUSDC"},
                              ![p].txHash = chain + 1]
        /\ UNCHANGED req
     \/ /\ chain' \in {chain, chain + 1}
        /\ Respond(p, [NoRes EXCEPT !.code = 400,
                         !.message = "Failed to send USDC",
                         !.internal = TRUE,
                         !.chainCalls = loc[p].chainCalls \cup {"sendUSDC"}])
  /\ UNCHANGED <<wallets, txs, today, db, posts, env>>

\* the row marked confirmed at once
TxRowConfirmed(w, h, m, d) ==
  [wallet_id |-> w, transaction_hash |-> h, amount |-> m, transaction_type |-> "send",
   status |-> "confirmed", confirmations |-> 1, confirmed_at |-> TRUE, created_at |-> d]

\* a row of table transactions as sendUSDC inserts it
TxRow(w, h, m, d) ==
  [wallet_id |-> w, transaction_hash |-> h, amount |-> m, transaction_type |-> "send",
   status |-> "pending", confirmations |-> 0, confirmed_at |-> FALSE, created_at |-> d]

\* the insert, with the amount taken off the cached balance
SendInsertDebit(p) ==
  /\ pc[p] = "su_insert"
  /\ txs' = Append(txs, TxRow(req[p].walletId, loc[p].txHash, req[p].amount, today))
  /\ wallets' = [wallets EXCEPT ![req[p].walletId].balance_usdc =
                                   IF @ >= req[p].amount THEN @ - req[p].amount ELSE 0]
  /\ Respond(p, [NoRes EXCEPT !.code = 200, !.txHash = loc[p].txHash,
                   !.status = "pending", !.chainCalls = loc[p].chainCalls])
  /\ UNCHANGED <<chain, today, db, posts, env>>

SendInsert(p) ==
  /\ pc[p] = "su_insert"
  /\ txs' = Append(txs, TxRow(req[p].walletId, loc[p].txHash, req[p].amount, today))
  /\ Respond(p, [NoRes EXCEPT !.code = 200, !.txHash = loc[p].txHash,
                   !.status = "pending", !.chainCalls = loc[p].chainCalls])
  /\ UNCHANGED <<wallets, chain, today, db, posts, env>>

(***************************************************************************)
(* POST /:walletId/balance: getWallet, then updateWalletBalance            *)
(***************************************************************************)
StartUpdateBalance(p) ==
  /\ \E u \in Users, w \in WalletIds :
       Begin(p, [NoReq EXCEPT !.op = "updateBalance", !.user = u, !.walletId = w],
             "gw_select")
  /\ UNCHANGED <<wallets, txs, chain, today, db, posts, env>>

GetWalletSelect(p) ==
  /\ pc[p] = "gw_select"
  /\ IF req[p].walletId \notin ActiveOf(wallets, req[p].user)
       THEN Fail(p, 400, "Wallet not found or access denied")
       ELSE /\ Goto(p, "ub_select")
            /\ loc' = [loc EXCEPT ![p].walletId = req[p].walletId]
            /\ UNCHANGED req
  /\ UNCHANGED <<wallets, txs, chain, today, db, posts, env>>

(***************************************************************************)
(* GET /:txHash (routes/transactions)                                      *)
(***************************************************************************)
\* SELECT t.*, w.user_id FROM transactions t JOIN wallets w ...
TxOfUser(ts, ws, h, u) ==
  {i \in DOMAIN ts : ts[i].transaction_hash = h /\ ws[ts[i].wallet_id].user_id = u}

\* what blockchainService.getTransaction may report
ChainReports ==
  {[status |-> "pending", confirmations |-> 0]}
    \cup [status : {"confirmed", "failed"}, confirmations : 1..MaxConfirmations]

\* if (blockchainTx.status !== txResult.rows[0].status)
StatusChanged(stored, reported) == reported # stored

StartGetTransaction(p) ==
  /\ \E u \in Users, h \in Hashes :
       IF h = 0
         THEN /\ Accepts(p)
              /\ FailAs(p, "getTransaction", 400, "Invalid transaction hash")
         ELSE Begin(p, [NoReq EXCEPT !.op = "getTransaction", !.user = u, !.txHash = h],
                    "gt_select")
  /\ UNCHANGED <<wallets, txs, chain, today, db, posts, env>>

GetTransactionSelect(p) ==
  /\ pc[p] = "gt_select"
  /\ LET rows == TxOfUser(txs, wallets, req[p].txHash, req[p].user) IN
       IF rows = {}
         THEN NotFound(p, 404, "Transaction not found or access denied", req[p].txHash)
         ELSE /\ Goto(p, "gt_chain")
              /\ LET row == txs[CHOOSE i \in rows : TRUE] IN
                   loc' = [loc EXCEPT ![p].status = row.status,
                                      ![p].confirmations = row.confirmations]
              /\ UNCHANGED req
  /\ UNCHANGED <<wallets, txs, chain, today, db, posts, env>>

GetTransactionChain(p) ==
  /\ pc[p] = "gt_chain"
  /\ \/ \E c \in ChainReports :
          IF StatusChanged(loc[p].status, c.status)
            THEN /\ Goto(p, "gt_update")
                 /\ loc' = [loc EXCEPT ![p].status = c.status,
                                       ![p].confirmations = c.confirmations]
                 /\ UNCHANGED req
            ELSE Respond(p, [NoRes EXCEPT !.code = 200, !.txHash = req[p].txHash,
                               !.status = c.status,
                               !.confirmations = c.confirmations])
     \/ Fail(p, 400, "Failed to get transaction details")
  /\ UNCHANGED <<wallets, txs, chain, today, db, posts, env>>

GetTransactionUpdate(p) ==
  /\ pc[p] = "gt_update"
  /\ txs' = [i \in DOMAIN txs |->
               IF txs[i].transaction_hash = req[p].txHash
                 THEN [txs[i] EXCEPT !.status = loc[p].status,
                                     !.confirmations = loc[p].confirmations,
                                     !.confirmed_at = (loc[p].status = "confirmed")]
                 ELSE txs[i]]
  /\ Respond(p, [NoRes EXCEPT !.code = 200, !.txHash = req[p].txHash,
                   !.status = loc[p].status,
                   !.confirmations = loc[p].confirmations])
  /\ UNCHANGED <<wallets, chain, today, db, posts, env>>

(***************************************************************************)
(* GET /:walletId: WalletService.getWallet                                 *)
(***************************************************************************)
\* the same lookup without its user_id condition
WalletOfAnyUser(ws, w, u) == {i \in DOMAIN ws : i = w /\ ws[i].status = "active"}

\* WHERE id = $1 AND user_id = $2 AND status = 'active'
WalletOfUser(ws, w, u) == {i \in ActiveOf(ws, u) : i = w}

StartGetWallet(p) ==
  /\ \E u \in Users, w \in WalletIds :
       Begin(p, [NoReq EXCEPT !.op = "getWallet", !.user = u, !.walletId = w],
             "gwr_select")
  /\ UNCHANGED <<wallets, txs, chain, today, db, posts, env>>

GetWallet(p) ==
  /\ pc[p] = "gwr_select"
  /\ IF WalletOfUser(wallets, req[p].walletId, req[p].user) = {}
       THEN NotFound(p, 404, "Wallet not found or access denied", req[p].walletId)
       ELSE Respond(p, [NoRes EXCEPT !.code = 200, !.walletId = req[p].walletId,
                          !.isPrimary = wallets[req[p].walletId].is_primary,
                          !.target = req[p].walletId])
  /\ UNCHANGED <<wallets, txs, chain, today, db, posts, env>>

(***************************************************************************)
(* GET /:walletId/transactions: WalletService.getTransactionHistory        *)
(***************************************************************************)
\* SELECT id FROM wallets WHERE id = $1 AND user_id = $2
OwnedWallet(ws, w, u) == {i \in WalletsOf(ws, u) : i = w}

StartGetTransactionHistory(p) ==
  /\ \E u \in Users, w \in WalletIds :
       Begin(p, [NoReq EXCEPT !.op = "getTransactionHistory", !.user = u,
                              !.walletId = w], "th_verify")
  /\ UNCHANGED <<wallets, txs, chain, today, db, posts, env>>

TransactionHistoryVerify(p) ==
  /\ pc[p] = "th_verify"
  /\ IF OwnedWallet(wallets, req[p].walletId, req[p].user) = {}
       THEN NotFound(p, 400, "Wallet not found or access denied", req[p].walletId)
       ELSE /\ Goto(p, "th_select")
            /\ UNCHANGED <<req, loc>>
  /\ UNCHANGED <<wallets, txs, chain, today, db, posts, env>>

TransactionHistorySelect(p) ==
  /\ pc[p] = "th_select"
  /\ Respond(p, [NoRes EXCEPT !.code = 200, !.target = req[p].walletId,
                   !.rows = Cardinality({i \in DOMAIN txs :
                                           txs[i].wallet_id = req[p].walletId})])
  /\ UNCHANGED <<wallets, txs, chain, today, db, posts, env>>

(***************************************************************************)
(* PUT and DELETE /:contactId: ContactService.updateContact, deleteContact *)
(***************************************************************************)
\* WHERE id = $3 AND user_id = $4
ContactOfUser(cs, c, u) == {r \in cs : r.id = c /\ r.user_id = u}

StartUpdateContact(p) ==
  /\ \E u \in Users, c \in ContactIds, n \in Names :
       Begin(p, [NoReq EXCEPT !.op = "updateContact", !.user = u, !.contactId = c,
                              !.walletName = n], "uc_update")
  /\ UNCHANGED <<wallets, txs, chain, today, db, posts, env>>

\* UPDATE contacts SET name = $1 ... WHERE id = $3 AND user_id = $4 RETURNING ...
UpdateContact(p) ==
  /\ pc[p] = "uc_update"
  /\ LET rows == ContactOfUser(db.contacts, req[p].contactId, req[p].user) IN
       IF rows = {}
         THEN /\ NotFound(p, 400, "Contact not found or access denied", req[p].contactId)
              /\ UNCHANGED db
         ELSE /\ db' = [db EXCEPT !.contacts =
                          (@ \ rows) \cup {[r EXCEPT !.name = req[p].walletName] : r \in rows}]
              /\ Respond(p, [NoRes EXCEPT !.code = 200, !.target = req[p].contactId])
  /\ UNCHANGED <<wallets, txs, chain, today, posts, env>>

StartDeleteContact(p) ==
  /\ \E u \in Users, c \in ContactIds :
       Begin(p, [NoReq EXCEPT !.op = "deleteContact", !.user = u, !.contactId = c],
             "dc_delete")
  /\ UNCHANGED <<wallets, txs, chain, today, db, posts, env>>

\* DELETE FROM contacts WHERE id = $1 AND user_id = $2 RETURNING id
DeleteContact(p) ==
  /\ pc[p] = "dc_delete"
  /\ LET rows == ContactOfUser(db.contacts, req[p].contactId, req[p].user) IN
       IF rows = {}
         THEN /\ NotFound(p, 400, "Contact not found or access denied", req[p].contactId)
              /\ UNCHANGED db
         ELSE /\ db' = [db EXCEPT !.contacts = @ \ rows]
              /\ Respond(p, [NoRes EXCEPT !.code = 200, !.target = req[p].contactId])
  /\ UNCHANGED <<wallets, txs, chain, today, posts, env>>

(***************************************************************************)
(* middleware/whitelabel: applyWhitelabelConfig, checkFeaturePermission    *)
(***************************************************************************)
\* Host headers, as their labels: none, a bare name, a tenant subdomain, the
\* reserved first labels, and custom domains
Hosts == {<<>>, <<"localhost">>, <<"acme", "wallet", "com">>, <<"old", "wallet", "com">>,
          <<"www", "wallet", "com">>, <<"api", "wallet", "com">>,
          <<"pay", "acme", "io">>, <<"www", "shop", "io">>}
Features == {"send", "multiple_wallets"}

\* host.match(/^([^.]+)\./) with subdomainMatch[1] !== "www" && !== "api":
\* the first label of a host that has a dot after it, Null if none or reserved
SubdomainOf(host) ==
  IF Len(host) >= 2 /\ host[1] \notin {"www", "api"} THEN host[1] ELSE Null

\* the same lookup without its is_active condition
AnyTenantBySubdomain(ts, sub) == {i \in DOMAIN ts : ts[i].subdomain = sub}

\* SELECT ... FROM white_label_clients WHERE subdomain = $1 AND is_active = true
TenantBySubdomain(ts, sub) ==
  {i \in DOMAIN ts : ts[i].subdomain = sub /\ ts[i].is_active}

\* SELECT ... FROM white_label_clients WHERE custom_domain = $1 AND is_active = true
TenantByCustomDomain(ts, host) ==
  {i \in DOMAIN ts : ts[i].custom_domain = host /\ ts[i].is_active}

\* a missing feature list taken to allow every feature
AllowedFeaturesOrAll(fc) ==
  IF fc.present /\ fc.hasFeatures THEN fc.features ELSE Features

\* featuresConfig?.features || []
AllowedFeatures(fc) ==
  IF fc.present /\ fc.hasFeatures THEN fc.features ELSE {}

\* checkFeaturePermission(feature) for the tenant row c of req.whitelabelClient,
\* 0 for none: TRUE when it calls next()
CheckFeaturePermission(ts, c, feature) ==
  c = 0 \/ feature \in AllowedFeatures(ts[c].features_config)

\* req.whitelabelClient = clientConfig; next(): the request goes on to the gate
\* of its route with the tenant row c, 0 for none
Resolved(p, c) ==
  /\ Goto(p, "wl_gate")
  /\ loc' = [loc EXCEPT ![p].client = c]
  /\ UNCHANGED req

\* a request to a gated route arrives; without a Host header no lookup is made
StartGatedRequest(p) ==
  /\ \E h \in Hosts, f \in Features :
       Begin(p, [NoReq EXCEPT !.op = "gated", !.host = h, !.feature = f],
             IF h = <<>> THEN "wl_gate"
             ELSE IF SubdomainOf(h) # Null THEN "wl_subdomain" ELSE "wl_custom")
  /\ UNCHANGED <<wallets, txs, chain, today, db, posts, env>>

WhitelabelSubdomain(p) ==
  /\ pc[p] = "wl_subdomain"
  /\ LET rows == TenantBySubdomain(db.tenants, SubdomainOf(req[p].host)) IN
       IF rows # {}
         THEN Resolved(p, CHOOSE i \in rows : TRUE)
         ELSE /\ Goto(p, "wl_custom")
              /\ UNCHANGED <<req, loc>>
  /\ UNCHANGED <<wallets, txs, chain, today, db, posts, env>>

WhitelabelCustomDomain(p) ==
  /\ pc[p] = "wl_custom"
  /\ LET rows == TenantByCustomDomain(db.tenants, req[p].host) IN
       Resolved(p, IF rows # {} THEN CHOOSE i \in rows : TRUE ELSE 0)
  /\ UNCHANGED <<wallets, txs, chain, today, db, posts, env>>

\* `Feature '${feature}' is not enabled for this client`
FeatureDenied(feature) ==
  IF feature = "send" THEN "Feature 'send' is not enabled for this client"
  ELSE "Feature 'multiple_wallets' is not enabled for this client"

\* checkFeaturePermission(feature) of the route and, if it calls next(), the handler
FeatureGate(p) ==
  /\ pc[p] = "wl_gate"
  /\ LET c == loc[p].client
         id == IF c = 0 THEN Null ELSE db.tenants[c].id
     IN IF CheckFeaturePermission(db.tenants, c, req[p].feature)
          THEN Respond(p, [NoRes EXCEPT !.code = 200, !.next = TRUE, !.client = id])
          ELSE Respond(p, [NoRes EXCEPT !.code = 403, !.client = id,
                             !.message = FeatureDenied(req[p].feature)])
  /\ UNCHANGED <<wallets, txs, chain, today, db, posts, env>>

(***************************************************************************)
(* middleware/auth: authenticateToken, authenticateApiKey                  *)
(***************************************************************************)
\* what the authorization header may carry: no token, a token that jwt.verify
\* refuses (forged or expired) and names an active user, and tokens signed with
\* JWT_SECRET for the users of the table and for one who is not in it
Tokens ==
  {[kind |-> "none", userId |-> Null], [kind |-> "refused", userId |-> "u1"]}
    \cup [kind : {"signed"}, userId : {"u1", "u2", "u3"}]

\* any token that is present taken as verified
VerifiesUnchecked(token) == token.kind # "none"

\* jwt.verify(token, process.env.JWT_SECRET) returns the payload
Verifies(token) == token.kind = "signed"

\* SELECT id, email, status FROM users WHERE id = $1 AND status = 'active'
ActiveUser(us, id) == {r \in us : r.id = id /\ r.status = "active"}

StartAuthenticated(p) ==
  /\ \E t \in Tokens :
       Begin(p, [NoReq EXCEPT !.op = "authenticated", !.token = t], "at_verify")
  /\ UNCHANGED <<wallets, txs, chain, today, db, posts, env>>

AuthenticateTokenVerify(p) ==
  /\ pc[p] = "at_verify"
  /\ IF req[p].token.kind = "none"
       THEN Fail(p, 401, "Access token required")
       ELSE IF ~Verifies(req[p].token)
         THEN Fail(p, 403, "Invalid token")
         ELSE /\ Goto(p, "at_user")
              /\ UNCHANGED <<req, loc>>
  /\ UNCHANGED <<wallets, txs, chain, today, db, posts, env>>

\* the user lookup, then next() and the handler
AuthenticateTokenUser(p) ==
  /\ pc[p] = "at_user"
  /\ IF ActiveUser(db.users, req[p].token.userId) = {}
       THEN Fail(p, 401, "Invalid or expired token")
       ELSE Respond(p, [NoRes EXCEPT !.code = 200, !.next = TRUE])
  /\ UNCHANGED <<wallets, txs, chain, today, db, posts, env>>

ApiKeys == {"k1", "k2", "k3", "k4", "k9"}
ApiSecrets == {"s1", "s2", "s9"}

\* the hash stored in api_secret_hash for a secret
SecretHash(secret) == <<"hash", secret>>

\* ... FROM api_keys ak JOIN white_label_clients wlc ON ...
\* WHERE ak.api_key = $1 AND ak.is_active = true AND wlc.is_active = true
\*   AND (ak.expires_at IS NULL OR ak.expires_at > NOW())
\* expires_at 0 stands for NULL
ValidApiKey(ks, ts, key, now) ==
  {i \in DOMAIN ks :
     /\ ks[i].api_key = key
     /\ ks[i].is_active
     /\ \E j \in DOMAIN ts : ts[j].id = ks[i].white_label_client_id /\ ts[j].is_active
     /\ (ks[i].expires_at = 0 \/ ks[i].expires_at > now)}

StartApiRequest(p) ==
  /\ \E k \in ApiKeys \cup {""}, x \in ApiSecrets \cup {""} :
       Begin(p, [NoReq EXCEPT !.op = "apiRequest", !.apiKey = k, !.apiSecret = x],
             "ak_headers")
  /\ UNCHANGED <<wallets, txs, chain, today, db, posts, env>>

\* if (!apiKey || !apiSecret)
ApiKeyHeaders(p) ==
  /\ pc[p] = "ak_headers"
  /\ IF req[p].apiKey = "" \/ req[p].apiSecret = ""
       THEN Fail(p, 401, "API key and secret required")
       ELSE /\ Goto(p, "ak_select")
            /\ UNCHANGED <<req, loc>>
  /\ UNCHANGED <<wallets, txs, chain, today, db, posts, env>>

\* the key lookup; the secret of the request is not compared with anything
ApiKeySelect(p) ==
  /\ pc[p] = "ak_select"
  /\ LET rows == ValidApiKey(db.api_keys, db.tenants, req[p].apiKey, today) IN
       IF rows = {}
         THEN Fail(p, 401, "Invalid API credentials")
         ELSE /\ Goto(p, "ak_touch")
              /\ loc' = [loc EXCEPT ![p].keyId = CHOOSE i \in rows : TRUE]
              /\ UNCHANGED req
  /\ UNCHANGED <<wallets, txs, chain, today, db, posts, env>>

\* UPDATE api_keys SET last_used_at = NOW() WHERE id = $1, then next()
ApiKeyTouch(p) ==
  /\ pc[p] = "ak_touch"
  /\ db' = [db EXCEPT !.api_keys[loc[p].keyId].last_used_at = today]
  /\ Respond(p, [NoRes EXCEPT !.code = 200, !.next = TRUE,
                   !.client = db.api_keys[loc[p].keyId].white_label_client_id])
  /\ UNCHANGED <<wallets, txs, chain, today, posts, env>>

(***************************************************************************)
(* BackupService.encryptBackup, decryptBackup                              *)
(***************************************************************************)
BackupData == {"d1", "d2"}
Passwords == {"pw1", "pw2"}
Salts == {"salt1", "salt2"}
Ivs == {"iv1", "iv2"}

\* the lengths in bytes of an auth tag that decipher.setAuthTag accepts for GCM
\* when the decipher was created without authTagLength
TagBytes == {4, 8, 12, 13, 14, 15, 16}

\* what may happen to a backup file, or to the password, between the two calls
Changes == {"none", "password", "ciphertext", "salt", "iv", "authTag", "authTagCut"}

\* crypto.pbkdf2Sync(password, salt, 100000, 32, "sha256")
Pbkdf2(password, salt) == <<password, salt>>

\* decipher.final() of aes-256-gcm: the tag set by setAuthTag, of any accepted
\* length, is compared with as many leading bytes of the tag computed from the
\* key and the ciphertext
TagVerifies(tag, key, encrypted) ==
  /\ tag.bytes \in TagBytes
  /\ tag.key = key
  /\ tag.data = encrypted.data

\* the file or password after the change c
Changed(blob, c) ==
  IF c = "ciphertext" THEN [blob EXCEPT !.encrypted.data = "other"]
  ELSE IF c = "salt" THEN [blob EXCEPT !.salt = "other"]
  ELSE IF c = "iv" THEN [blob EXCEPT !.iv = "other"]
  ELSE IF c = "authTag" THEN [blob EXCEPT !.authTag.data = "other"]
  ELSE IF c = "authTagCut" THEN [blob EXCEPT !.authTag.bytes = 4]
  ELSE blob

StartBackupRoundTrip(p) ==
  /\ \E d \in BackupData, w \in Passwords :
       Begin(p, [NoReq EXCEPT !.op = "backup", !.data = d, !.password = w], "bk_encrypt")
  /\ UNCHANGED <<wallets, txs, chain, today, db, posts, env>>

\* encryptBackup: random salt and iv, key from the password and the salt, then
\* crypto.createCipher(algorithm, key), which derives the cipher key and the
\* nonce from `key` alone (the iv is stored but not used); on a runtime without
\* createCipher the call throws and the catch rethrows
EncryptBackup(p) ==
  /\ pc[p] = "bk_encrypt"
  /\ \/ \E salt \in Salts, iv \in Ivs :
          LET key == Pbkdf2(req[p].password, salt) IN
            /\ Goto(p, "bk_file")
            /\ loc' = [loc EXCEPT ![p].blob =
                         [encrypted |-> [data |-> req[p].data, key |-> key],
                          salt |-> salt, iv |-> iv,
                          authTag |-> [key |-> key, data |-> req[p].data, bytes |-> 16]]]
            /\ UNCHANGED req
     \/ Fail(p, 500, "Failed to encrypt backup")
  /\ UNCHANGED <<wallets, txs, chain, today, db, posts, env>>

\* the file is kept by the user and comes back, changed or not, with a password
BackupFile(p) ==
  /\ pc[p] = "bk_file"
  /\ \E c \in Changes :
       /\ loc' = [loc EXCEPT ![p].blob = Changed(@, c), ![p].changed = c]
       /\ req' = [req EXCEPT ![p].password =
                     IF c = "password" THEN "other" ELSE @]
  /\ Goto(p, "bk_decrypt")
  /\ UNCHANGED <<wallets, txs, chain, today, db, posts, env>>

\* decryptBackup: key from the password and the stored salt, createDecipher,
\* setAuthTag, update, final; any throw becomes the decryption error
DecryptBackup(p) ==
  /\ pc[p] = "bk_decrypt"
  /\ LET blob == loc[p].blob
         key == Pbkdf2(req[p].password, blob.salt)
     IN IF key = blob.encrypted.key /\ TagVerifies(blob.authTag, key, blob.encrypted)
          THEN Respond(p, [NoRes EXCEPT !.code = 200, !.value = blob.encrypted.data])
          ELSE Fail(p, 400, "Failed to decrypt backup - invalid password or corrupted data")
  /\ UNCHANGED <<wallets, txs, chain, today, db, posts, env>>

(***************************************************************************)
(* WebhookService.sendWebhook, deliverWebhook, logWebhookDelivery          *)
(***************************************************************************)
Clients == {"a1", "a2"}
Events == {"wallet.created", "transaction.created"}

\* what axios.post may come back with: the status of a response, or 0 for none
\* (timeout after 10 s, connection refused)
PostResponses == {0, 200, 500}

\* validateStatus of axios: the promise resolves for 2xx and rejects otherwise
Resolves(status) == status >= 200 /\ status < 300

\* the same select without its status condition
AnyWebhooks(hooks, c, e) ==
  {i \in DOMAIN hooks : hooks[i].client_id = c /\ e \in hooks[i].events}

\* SELECT * FROM webhooks WHERE client_id = $1 AND status = 'active'
\*   AND events::jsonb ? $2
ActiveWebhooks(hooks, c, e) ==
  {i \in DOMAIN hooks :
     hooks[i].client_id = c /\ hooks[i].status = "active" /\ e \in hooks[i].events}

\* the orders in which a select without ORDER BY may return the rows S
Orders(S) ==
  {s \in [1..Cardinality(S) -> S] : \A i, j \in DOMAIN s : i # j => s[i] # s[j]}

\* the row with 'failed' whatever the POST came back with
WebhookLogFailed(id, e, posted, status) ==
  [webhook_id |-> id, event |-> e, status |-> "failed", status_code |-> status]

\* the row deliverWebhook hands to logWebhookDelivery: "success", response.status
\* after the try block, "failed", error.response?.status || 0 in the catch
WebhookLog(id, e, posted, status) ==
  [webhook_id |-> id, event |-> e,
   status |-> (IF posted /\ Resolves(status) THEN "success" ELSE "failed"),
   status_code |-> status]

\* the payload object of deliverWebhook; the data of the event is one value and
\* new Date() is the day
Payload(h, e) == [event |-> e, data |-> "data", timestamp |-> today, webhook_id |-> h.id]

\* JSON.stringify(payload): the values in the order of the keys.  axios.post
\* serializes the same object the same way for the request body.
Stringify(payload) ==
  <<payload.event, payload.data, payload.timestamp, payload.webhook_id>>

\* the digest computed without the secret
GenerateSignatureUnkeyed(payload, secret) == <<"sha256", "", payload>>

\* crypto.createHmac("sha256", secret).update(payload).digest("hex")
GenerateSignature(payload, secret) == <<"sha256", secret, payload>>

\* the request axios.post sends to webhook h for event e
WebhookPost(h, e) ==
  [webhook_id |-> h.id, event |-> e, body |-> Stringify(Payload(h, e)),
   signature |-> GenerateSignature(Stringify(Payload(h, e)), h.secret)]

StartSendWebhook(p) ==
  /\ Len(posts) < MaxDeliveries
  /\ Len(db.webhook_logs) < MaxDeliveries
  /\ \E c \in Clients, e \in Events :
       Begin(p, [NoReq EXCEPT !.op = "sendWebhook", !.clientId = c, !.event = e],
             "wh_select")
  /\ UNCHANGED <<wallets, txs, chain, today, db, posts, env>>

\* the select; an empty result or a failed query (caught and logged) ends the call
SendWebhookSelect(p) ==
  /\ pc[p] = "wh_select"
  /\ \/ \E hs \in Orders(ActiveWebhooks(db.webhooks, req[p].clientId, req[p].event)) :
          IF hs = <<>>
            THEN Respond(p, NoRes)
            ELSE /\ Goto(p, "wh_post")
                 /\ loc' = [loc EXCEPT ![p].hooks = hs]
                 /\ UNCHANGED req
     \/ Respond(p, NoRes)
  /\ UNCHANGED <<wallets, txs, chain, today, db, posts, env>>

\* deliverWebhook up to its log call for the first webhook left: createHmac
\* throws on a missing secret before anything is sent, else the POST is made
DeliverWebhook(p) ==
  /\ pc[p] = "wh_post"
  /\ LET h == db.webhooks[Head(loc[p].hooks)] IN
       IF h.secret = Null
         THEN /\ loc' = [loc EXCEPT ![p].posted = FALSE, ![p].response = 0]
              /\ UNCHANGED posts
         ELSE \E status \in PostResponses :
                /\ posts' = Append(posts, WebhookPost(h, req[p].event))
                /\ loc' = [loc EXCEPT ![p].posted = TRUE, ![p].response = status]
  /\ Goto(p, "wh_log")
  /\ UNCHANGED <<wallets, txs, chain, req, today, db, env>>

\* logWebhookDelivery, whose INSERT may fail (caught and logged), then the next
\* webhook of the loop or the end of sendWebhook
LogWebhookDelivery(p) ==
  /\ pc[p] = "wh_log"
  /\ \/ db' = [db EXCEPT !.webhook_logs =
                  Append(@, WebhookLog(Head(loc[p].hooks), req[p].event,
                                       loc[p].posted, loc[p].response))]
     \/ UNCHANGED db
  /\ IF Len(loc[p].hooks) > 1
       THEN /\ Goto(p, "wh_post")
            /\ loc' = [loc EXCEPT ![p].hooks = Tail(@),
                                  ![p].done = @ \cup {Head(loc[p].hooks)}]
            /\ UNCHANGED req
       ELSE Respond(p, NoRes)
  /\ UNCHANGED <<wallets, txs, chain, today, posts, env>>

\* the calendar day changes, up to the first day of the next month
Tick ==
  /\ today < DaysPerMonth
  /\ today' = today + 1
  /\ res' = NoRes
  /\ UNCHANGED <<wallets, txs, chain, pc, req, loc, db, posts, env>>

(***************************************************************************)
(* routes/auth: login, setup-2fa, verify-2fa                               *)
(***************************************************************************)
\* secrets speakeasy.generateSecret may return; "" stands for NULL
TwoFactorSecrets == {"x1", "x2", "x3"}

\* the code an authenticator shows for a secret at the time of the request
Totp(secret) ==
  IF secret = "x1" THEN "111111" ELSE IF secret = "x2" THEN "222222" ELSE "333333"

\* what a request may carry as code: none, a well-formed code of no secret of
\* the system, and the current code of each secret
TwoFactorCodes == {"", "000000"} \cup {Totp(x) : x \in TwoFactorSecrets}

\* any code that is present taken as valid
TotpVerifiesAny(secret, code) == code # ""

\* speakeasy.totp.verify({secret, encoding: "base32", token, window: 2})
TotpVerifies(secret, code) == secret \in TwoFactorSecrets /\ code = Totp(secret)

\* bcrypt.hash(password, 12) as stored in password_hash
PasswordHash(password) == <<"bcrypt", password>>

\* bcrypt.compare(password, user.password_hash)
PasswordMatches(password, hash) == hash = PasswordHash(password)

\* a row of table users; verified is history: the secrets of this user for
\* which verify-2fa was given a valid code
User(id, st, pw) ==
  [id |-> id, status |-> st, password_hash |-> PasswordHash(pw),
   two_factor_enabled |-> FALSE, two_factor_secret |-> "", last_login |-> 0,
   verified |-> {}]

\* SELECT ... FROM users WHERE email = $1
UserByEmail(us, email) == {r \in us : r.id = email}

\* the users whose token authenticateToken lets through
Authenticated == {r.id : r \in ActiveUser(db.users, "u1") \cup ActiveUser(db.users, "u2")}

StartLogin(p) ==
  /\ \E u \in {"u1", "u2", "u3"}, pw \in Passwords \cup {""}, c \in TwoFactorCodes :
       IF pw = ""
         THEN /\ Accepts(p)
              /\ FailAs(p, "login", 400, "Validation failed")
         ELSE Begin(p, [NoReq EXCEPT !.op = "login", !.user = u, !.password = pw,
                                     !.twoFactorCode = c], "lg_select")
  /\ UNCHANGED <<wallets, txs, chain, today, db, posts, env>>

\* the user query and the checks on the row it returned
LoginSelect(p) ==
  /\ pc[p] = "lg_select"
  /\ LET rows == UserByEmail(db.users, req[p].user) IN
       IF rows = {}
         THEN Fail(p, 401, "Invalid credentials")
         ELSE LET user == CHOOSE r \in rows : TRUE IN
           IF user.status # "active"
             THEN Fail(p, 401, "Account is suspended or inactive")
           ELSE IF ~PasswordMatches(req[p].password, user.password_hash)
             THEN Fail(p, 401, "Invalid credentials")
           ELSE IF user.two_factor_enabled /\ req[p].twoFactorCode = ""
             THEN Fail(p, 200, "2FA code required")
           ELSE IF /\ user.two_factor_enabled
                   /\ ~TotpVerifies(user.two_factor_secret, req[p].twoFactorCode)
             THEN Fail(p, 401, "Invalid 2FA code")
             ELSE /\ Goto(p, "lg_touch")
                  /\ UNCHANGED <<req, loc>>
  /\ UNCHANGED <<wallets, txs, chain, today, db, posts, env>>

\* UPDATE users SET last_login = NOW(), then jwt.sign and the response
LoginTouch(p) ==
  /\ pc[p] = "lg_touch"
  /\ db' = [db EXCEPT !.users = {IF r.id = req[p].user
                                   THEN [r EXCEPT !.last_login = today] ELSE r : r \in @}]
  /\ Respond(p, [NoRes EXCEPT !.code = 200, !.message = "Login successful",
                              !.token = req[p].user])
  /\ UNCHANGED <<wallets, txs, chain, today, posts, env>>

StartSetupTwoFactor(p) ==
  /\ \E u \in Authenticated :
       Begin(p, [NoReq EXCEPT !.op = "setup-2fa", !.user = u], "s2_update")
  /\ UNCHANGED <<wallets, txs, chain, today, db, posts, env>>

\* speakeasy.generateSecret, a secret no user has, and
\* UPDATE users SET two_factor_secret = $1 WHERE id = $2
SetupTwoFactor(p) ==
  /\ pc[p] = "s2_update"
  /\ \E x \in TwoFactorSecrets :
       /\ \A r \in db.users : r.two_factor_secret # x /\ x \notin r.verified
       /\ db' = [db EXCEPT !.users = {IF r.id = req[p].user
                                        THEN [r EXCEPT !.two_factor_secret = x]
                                        ELSE r : r \in @}]
  /\ Respond(p, [NoRes EXCEPT !.code = 200])
  /\ UNCHANGED <<wallets, txs, chain, today, posts, env>>

StartVerifyTwoFactor(p) ==
  /\ \E u \in Authenticated, c \in TwoFactorCodes :
       IF c = ""
         THEN /\ Accepts(p)
              /\ FailAs(p, "verify-2fa", 400, "Invalid 2FA token format")
         ELSE Begin(p, [NoReq EXCEPT !.op = "verify-2fa", !.user = u,
                                     !.twoFactorCode = c], "v2_select")
  /\ UNCHANGED <<wallets, txs, chain, today, db, posts, env>>

\* SELECT two_factor_secret FROM users WHERE id = $1, and the verification
VerifyTwoFactorSelect(p) ==
  /\ pc[p] = "v2_select"
  /\ LET rows == UserByEmail(db.users, req[p].user) IN
       IF rows = {} \/ \A r \in rows : r.two_factor_secret = ""
         THEN /\ Fail(p, 400, "2FA not set up")
              /\ UNCHANGED db
         ELSE LET secret == (CHOOSE r \in rows : TRUE).two_factor_secret IN
           IF ~TotpVerifies(secret, req[p].twoFactorCode)
             THEN /\ Fail(p, 400, "Invalid 2FA token")
                  /\ UNCHANGED db
             ELSE /\ Goto(p, "v2_enable")
                  /\ db' = [db EXCEPT !.users =
                              {IF r.id = req[p].user
                                 THEN [r EXCEPT !.verified = @ \cup {secret}]
                                 ELSE r : r \in @}]
                  /\ UNCHANGED <<req, loc>>
  /\ UNCHANGED <<wallets, txs, chain, today, posts, env>>

\* UPDATE users SET two_factor_enabled = true WHERE id = $1
VerifyTwoFactorEnable(p) ==
  /\ pc[p] = "v2_enable"
  /\ db' = [db EXCEPT !.users = {IF r.id = req[p].user
                                   THEN [r EXCEPT !.two_factor_enabled = TRUE]
                                   ELSE r : r \in @}]
  /\ Respond(p, [NoRes EXCEPT !.code = 200, !.message = "2FA enabled successfully"])
  /\ UNCHANGED <<wallets, txs, chain, today, posts, env>>

(***************************************************************************)
(* config/database query: a statement that fails raises to its caller      *)
(***************************************************************************)
QuerySteps == {"cw_existing", "cw_count", "cw_insert", "ub_select", "ub_update",
               "iw_existing", "iw_count", "iw_insert", "rs_existing", "rs_insert",
               "sp_verify", "sp_clear", "sp_set", "guw_select",
               "tl_daily", "tl_monthly", "su_wallet", "su_insert", "gw_select",
               "gt_select", "gt_update", "gwr_select", "th_verify", "th_select",
               "uc_update", "dc_delete", "wl_subdomain", "wl_custom",
               "at_user", "ak_select", "ak_touch",
               "lg_select", "lg_touch", "s2_update", "v2_select", "v2_enable"}

QueryFails(p) ==
  /\ pc[p] \in QuerySteps
  /\ IF pc[p] \in {"rs_existing", "rs_insert"}
       THEN RestoreContinue(p, loc[p].restored)
       ELSE IF pc[p] \in {"tl_daily", "tl_monthly"}
         THEN /\ Goto(p, "tl_catch")
              /\ UNCHANGED <<req, loc>>
         ELSE IF pc[p] = "guw_select"
           THEN Fail(p, 500, "Failed to get wallets")
           ELSE IF pc[p] = "wl_subdomain"
             THEN /\ Goto(p, "wl_custom")
                  /\ UNCHANGED <<req, loc>>
           ELSE IF pc[p] = "wl_custom"
             THEN Resolved(p, 0)
           ELSE IF pc[p] = "at_user"
             THEN Fail(p, 403, "Invalid token")
           ELSE IF pc[p] \in {"ak_select", "ak_touch"}
             THEN Fail(p, 500, "Authentication error")
           ELSE IF pc[p] \in {"lg_select", "lg_touch"}
             THEN Fail(p, 500, "Login failed")
           ELSE IF pc[p] = "s2_update"
             THEN Fail(p, 500, "2FA setup failed")
           ELSE IF pc[p] \in {"v2_select", "v2_enable"}
             THEN Fail(p, 500, "2FA verification failed")
           ELSE IF pc[p] = "gwr_select"
             THEN Respond(p, [NoRes EXCEPT !.code = 404, !.message = "query failed",
                              !.internal = TRUE])
             ELSE Respond(p, [NoRes EXCEPT !.code = 400, !.message = "query failed",
                              !.internal = TRUE, !.chainCalls = loc[p].chainCalls])
  /\ UNCHANGED <<wallets, txs, chain, today, db, posts, env>>

(***************************************************************************)
(* Specifications                                                          *)
(***************************************************************************)
Init ==
  /\ wallets = <<>>
  /\ txs = <<>>
  /\ chain = 0
  /\ pc = [p \in Procs |-> "idle"]
  /\ req = [p \in Procs |-> NoReq]
  /\ loc = [p \in Procs |-> NoLoc]
  /\ res = NoRes
  /\ today = 0
  /\ db = NoDb
  /\ posts = <<>>
  /\ env = "production"

WalletStep(p) ==
  \/ StartCreateWallet(p)
  \/ CreateWalletExisting(p)
  \/ CreateWalletCount(p)
  \/ CreateWalletInsert(p)
  \/ UpdateBalanceSelect(p)
  \/ UpdateBalanceChain(p)
  \/ UpdateBalanceUpdate(p)
  \/ StartImportWallet(p)
  \/ ImportWalletExisting(p)
  \/ ImportWalletCount(p)
  \/ ImportWalletInsert(p)
  \/ StartRestoreFromBackup(p)
  \/ RestoreExisting(p)
  \/ RestoreInsert(p)
  \/ StartSetPrimaryWallet(p)
  \/ SetPrimaryVerify(p)
  \/ SetPrimaryClear(p)
  \/ SetPrimarySet(p)
  \/ StartGetUserWallets(p)
  \/ GetUserWallets(p)
  \/ QueryFails(p)

\* concurrent requests
WalletNext == \E p \in Procs : WalletStep(p)

SpecWallets == Init /\ [][WalletNext]_vars

\* one request at a time
WalletSeqNext == \E p \in {"c1"} : WalletStep(p)

SpecWalletsSeq == Init /\ [][WalletSeqNext]_vars

\* create, import and restore only, concurrently
NameStep(p) ==
  \/ StartCreateWallet(p)
  \/ CreateWalletExisting(p)
  \/ CreateWalletCount(p)
  \/ CreateWalletInsert(p)
  \/ UpdateBalanceSelect(p)
  \/ UpdateBalanceChain(p)
  \/ UpdateBalanceUpdate(p)
  \/ StartImportWallet(p)
  \/ ImportWalletExisting(p)
  \/ ImportWalletCount(p)
  \/ ImportWalletInsert(p)
  \/ StartRestoreFromBackup(p)
  \/ RestoreExisting(p)
  \/ RestoreInsert(p)
  \/ QueryFails(p)

NamesNext == \E p \in Procs : NameStep(p)

SpecNames == Init /\ [][NamesNext]_vars

\* setPrimaryWallet calls and readers, concurrently, on the database that
\* createWallet(u1, n1) followed by createWallet(u1, n2) leaves behind
TwoWallets ==
  <<[WalletRow("u1", TenantOf("u1"), "n1", 11, TRUE) EXCEPT !.balance_usdc = 0],
    [WalletRow("u1", TenantOf("u1"), "n2", 12, FALSE) EXCEPT !.balance_usdc = 0]>>

InitPrimary ==
  /\ wallets = TwoWallets
  /\ txs = <<>>
  /\ chain = 0
  /\ pc = [p \in Procs |-> "idle"]
  /\ req = [p \in Procs |-> NoReq]
  /\ loc = [p \in Procs |-> NoLoc]
  /\ res = NoRes
  /\ today = 0
  /\ db = NoDb
  /\ posts = <<>>
  /\ env = "production"

PrimaryStep(p) ==
  \/ StartSetPrimaryWallet(p)
  \/ SetPrimaryVerify(p)
  \/ SetPrimaryClear(p)
  \/ SetPrimarySet(p)
  \/ StartGetUserWallets(p)
  \/ GetUserWallets(p)
  \/ QueryFails(p)

PrimaryNext == \E p \in Procs : PrimaryStep(p)

SpecPrimary == InitPrimary /\ [][PrimaryNext]_vars

\* sends, concurrently, while the days pass, on a database in which the first
\* wallet was refreshed to a balance and one send of it was looked up as failed
FundedWallets == [TwoWallets EXCEPT ![1].balance_usdc = FundedBalance]

\* a send of the day before, confirmed by a lookup since, that used the daily
\* ceiling of that day
EarlierTx ==
  [TxRow(1, 1, DailyLimit, DaysPerMonth - 2) EXCEPT !.status = "confirmed", !.confirmations = 1,
                                     !.confirmed_at = TRUE]

\* a send of today, the last day of a month, that a lookup found failed
FailedTx == [TxRow(1, 2, 1, DaysPerMonth - 1) EXCEPT !.status = "failed", !.confirmations = 1]

InitSend ==
  /\ wallets = FundedWallets
  /\ txs = <<EarlierTx, FailedTx>>
  /\ chain = 2
  /\ pc = [p \in Procs |-> "idle"]
  /\ req = [p \in Procs |-> NoReq]
  /\ loc = [p \in Procs |-> NoLoc]
  /\ res = NoRes
  /\ today = DaysPerMonth - 1
  /\ db = NoDb
  /\ posts = <<>>
  /\ env = "production"

SendStep(p) ==
  \/ StartSend(p)
  \/ LimitsDaily(p)
  \/ LimitsMonthly(p)
  \/ LimitsCatch(p)
  \/ SendWallet(p)
  \/ SendGas(p)
  \/ SendTransfer(p)
  \/ SendInsert(p)
  \/ QueryFails(p)

SendNext == (\E p \in Procs : SendStep(p)) \/ Tick

SpecSend == InitSend /\ [][SendNext]_vars

\* the same sends on a database that answers every query
SendOkStep(p) ==
  \/ StartSend(p)
  \/ LimitsDaily(p)
  \/ LimitsMonthly(p)
  \/ SendWallet(p)
  \/ SendGas(p)
  \/ SendTransfer(p)
  \/ SendInsert(p)

SendOkNext == (\E p \in Procs : SendOkStep(p)) \/ Tick

SpecSendOk == InitSend /\ [][SendOkNext]_vars

\* setup-2fa and verify-2fa calls of two users, one call at a time, on a users
\* table in which nobody has set up 2FA
InitTwoFactor ==
  /\ wallets = <<>>
  /\ txs = <<>>
  /\ chain = 0
  /\ pc = [p \in Procs |-> "idle"]
  /\ req = [p \in Procs |-> NoReq]
  /\ loc = [p \in Procs |-> NoLoc]
  /\ res = NoRes
  /\ today = 1
  /\ \E st \in {"active", "suspended"} :
       db = [NoDb EXCEPT !.users = {User("u1", "active", "pw1"), User("u2", st, "pw2")}]
  /\ posts = <<>>
  /\ env = "production"

TwoFactorStep(p) ==
  \/ StartSetupTwoFactor(p)
  \/ SetupTwoFactor(p)
  \/ StartVerifyTwoFactor(p)
  \/ VerifyTwoFactorSelect(p)
  \/ VerifyTwoFactorEnable(p)
  \/ QueryFails(p)

TwoFactorNext == \E p \in {"c1"} : TwoFactorStep(p)

SpecTwoFactor == InitTwoFactor /\ [][TwoFactorNext]_vars

\* the same calls and logins
LoginStep(p) ==
  \/ StartLogin(p)
  \/ LoginSelect(p)
  \/ LoginTouch(p)
  \/ TwoFactorStep(p)

LoginNext == \E p \in {"c1"} : LoginStep(p)

SpecLogin == InitTwoFactor /\ [][LoginNext]_vars

\* restores of one backup file, one call at a time, between wallet creations
RestoreStep(p) ==
  \/ StartCreateWallet(p)
  \/ CreateWalletExisting(p)
  \/ CreateWalletCount(p)
  \/ CreateWalletInsert(p)
  \/ UpdateBalanceSelect(p)
  \/ UpdateBalanceChain(p)
  \/ UpdateBalanceUpdate(p)
  \/ StartRestoreSame(p)
  \/ RestoreExisting(p)
  \/ RestoreInsert(p)
  \/ QueryFails(p)

RestoreNext == \E p \in {"c1"} : RestoreStep(p)

SpecRestore == Init /\ [][RestoreNext]_vars

\* sends that reached checkTransactionLimits, concurrently, under every client
\* configuration, on a database whose queries may fail
LimitsStep(p) ==
  \/ StartCheckTransactionLimits(p)
  \/ LimitsDaily(p)
  \/ LimitsMonthly(p)
  \/ LimitsCatch(p)
  \/ SendWallet(p)
  \/ SendGas(p)
  \/ SendTransfer(p)
  \/ SendInsert(p)
  \/ QueryFails(p)

LimitsNext == \E p \in Procs : LimitsStep(p)

SpecLimits == InitSend /\ [][LimitsNext]_vars

\* transaction lookups, concurrently, on a database in which two sends of the
\* first wallet are pending
PendingTxs == <<TxRow(1, 1, 1, 0), TxRow(1, 2, 1, 0)>>

InitLookup ==
  /\ wallets = FundedWallets
  /\ txs = PendingTxs
  /\ chain = 2
  /\ pc = [p \in Procs |-> "idle"]
  /\ req = [p \in Procs |-> NoReq]
  /\ loc = [p \in Procs |-> NoLoc]
  /\ res = NoRes
  /\ today = 0
  /\ db = NoDb
  /\ posts = <<>>
  /\ env = "production"

LookupStep(p) ==
  \/ StartGetTransaction(p)
  \/ GetTransactionSelect(p)
  \/ GetTransactionChain(p)
  \/ GetTransactionUpdate(p)
  \/ QueryFails(p)

LookupNext == \E p \in Procs : LookupStep(p)

SpecLookup == InitLookup /\ [][LookupNext]_vars

\* balance refreshes, concurrently, on the same database
BalanceStep(p) ==
  \/ StartUpdateBalance(p)
  \/ GetWalletSelect(p)
  \/ UpdateBalanceSelect(p)
  \/ UpdateBalanceChain(p)
  \/ UpdateBalanceUpdate(p)
  \/ QueryFails(p)

BalanceNext == \E p \in Procs : BalanceStep(p)

SpecBalance == InitLookup /\ [][BalanceNext]_vars

\* requests that name a wallet, a transaction or a contact, from its owner and from
\* another user, on a database that holds one wallet, one pending send of it and
\* one contact, all of the first user; the next id of each kind names none.  The
\* cached balance of the wallet is 0, so no send gets past the balance check.
OneContact == {[id |-> 1, user_id |-> "u1", name |-> "n1"]}

InitAccess ==
  /\ wallets = <<WalletRow("u1", TenantOf("u1"), "n1", 11, TRUE)>>
  /\ txs = <<TxRow(1, 1, 1, 0)>>
  /\ chain = 1
  /\ pc = [p \in Procs |-> "idle"]
  /\ req = [p \in Procs |-> NoReq]
  /\ loc = [p \in Procs |-> NoLoc]
  /\ res = NoRes
  /\ today = 0
  /\ db = [NoDb EXCEPT !.contacts = OneContact]
  /\ posts = <<>>
  /\ env = "production"

AccessStep(p) ==
  \/ StartGetWallet(p)
  \/ GetWallet(p)
  \/ StartGetTransactionHistory(p)
  \/ TransactionHistoryVerify(p)
  \/ TransactionHistorySelect(p)
  \/ StartSetPrimaryWallet(p)
  \/ SetPrimaryVerify(p)
  \/ SetPrimaryClear(p)
  \/ SetPrimarySet(p)
  \/ StartGetTransaction(p)
  \/ GetTransactionSelect(p)
  \/ GetTransactionChain(p)
  \/ GetTransactionUpdate(p)
  \/ StartUpdateContact(p)
  \/ UpdateContact(p)
  \/ StartDeleteContact(p)
  \/ DeleteContact(p)
  \/ StartSend(p)
  \/ LimitsDaily(p)
  \/ LimitsMonthly(p)
  \/ LimitsCatch(p)
  \/ SendWallet(p)
  \/ QueryFails(p)

\* one request at a time
AccessNext == \E p \in {"c1"} : AccessStep(p)

SpecAccess == InitAccess /\ [][AccessNext]_vars

\* publishes of both events for both clients, one at a time, on six registrations:
\* three active ones of the first client subscribed to wallet.created (one of
\* them registered without a secret), an inactive one, one of the second client,
\* and one subscribed to transaction.created only
Webhook(id, c, st, es, sec) ==
  [id |-> id, client_id |-> c, status |-> st, events |-> es, secret |-> sec]

Registrations ==
  <<Webhook(1, "a1", "active", Events, "s1"),
    Webhook(2, "a1", "active", {"wallet.created"}, "s2"),
    Webhook(3, "a1", "active", {"wallet.created"}, Null),
    Webhook(4, "a1", "inactive", {"wallet.created"}, "s4"),
    Webhook(5, "a2", "active", {"wallet.created"}, "s5"),
    Webhook(6, "a1", "active", {"transaction.created"}, "s6")>>

InitWebhooks ==
  /\ wallets = <<>>
  /\ txs = <<>>
  /\ chain = 0
  /\ pc = [p \in Procs |-> "idle"]
  /\ req = [p \in Procs |-> NoReq]
  /\ loc = [p \in Procs |-> NoLoc]
  /\ res = NoRes
  /\ today = 0
  /\ db = [NoDb EXCEPT !.webhooks = Registrations]
  /\ posts = <<>>
  /\ env = "production"

WebhookStep(p) ==
  \/ StartSendWebhook(p)
  \/ SendWebhookSelect(p)
  \/ DeliverWebhook(p)
  \/ LogWebhookDelivery(p)

WebhookNext == \E p \in {"c1"} : WebhookStep(p)

SpecWebhooks == InitWebhooks /\ [][WebhookNext]_vars

\* requests to gated routes under every Host header, on two tenants, each active
\* or not: one with a feature list that lacks multiple_wallets, one whose
\* features_config has no feature list
Tenant(id, sub, dom, act, fc) ==
  [id |-> id, subdomain |-> sub, custom_domain |-> dom, is_active |-> act,
   features_config |-> fc]

Tenants(a1, a2) ==
  <<Tenant("t1", "acme", <<"pay", "acme", "io">>, a1,
           [present |-> TRUE, hasFeatures |-> TRUE, features |-> {"send"}]),
    Tenant("t2", "old", <<"www", "shop", "io">>, a2,
           [present |-> TRUE, hasFeatures |-> FALSE, features |-> {}])>>

InitTenants ==
  /\ wallets = <<>>
  /\ txs = <<>>
  /\ chain = 0
  /\ pc = [p \in Procs |-> "idle"]
  /\ req = [p \in Procs |-> NoReq]
  /\ loc = [p \in Procs |-> NoLoc]
  /\ res = NoRes
  /\ today = 0
  /\ \E a1, a2 \in BOOLEAN : db = [NoDb EXCEPT !.tenants = Tenants(a1, a2)]
  /\ posts = <<>>
  /\ env = "production"

TenantStep(p) ==
  \/ StartGatedRequest(p)
  \/ WhitelabelSubdomain(p)
  \/ WhitelabelCustomDomain(p)
  \/ FeatureGate(p)
  \/ QueryFails(p)

TenantNext == \E p \in Procs : TenantStep(p)

SpecTenants == InitTenants /\ [][TenantNext]_vars

\* requests with every token and every key and secret, on two users of any
\* status (a third is not in the table), two tenants, each active or not, and
\* four keys: a good one of each tenant, an expired one and a deactivated one
ApiKey(key, secret, t, act, exp) ==
  [api_key |-> key, api_secret_hash |-> SecretHash(secret), white_label_client_id |-> t,
   is_active |-> act, expires_at |-> exp, last_used_at |-> 0]

InitAuth ==
  /\ wallets = <<>>
  /\ txs = <<>>
  /\ chain = 0
  /\ pc = [p \in Procs |-> "idle"]
  /\ req = [p \in Procs |-> NoReq]
  /\ loc = [p \in Procs |-> NoLoc]
  /\ res = NoRes
  /\ today = 1
  /\ \E a1, a2 \in BOOLEAN, st \in {"active", "suspended", "deleted"} :
       db = [NoDb EXCEPT
               !.tenants = Tenants(a1, a2),
               !.users = {[id |-> "u1", status |-> "active"], [id |-> "u2", status |-> st]},
               !.api_keys = <<ApiKey("k1", "s1", "t1", TRUE, 0),
                              ApiKey("k2", "s2", "t2", TRUE, today + 1),
                              ApiKey("k3", "s1", "t1", TRUE, today),
                              ApiKey("k4", "s1", "t1", FALSE, 0)>>]
  /\ posts = <<>>
  /\ env = "production"

AuthStep(p) ==
  \/ StartAuthenticated(p)
  \/ AuthenticateTokenVerify(p)
  \/ AuthenticateTokenUser(p)
  \/ StartApiRequest(p)
  \/ ApiKeyHeaders(p)
  \/ ApiKeySelect(p)
  \/ ApiKeyTouch(p)
  \/ QueryFails(p)

AuthNext == \E p \in {"c1"} : AuthStep(p)

SpecAuth == InitAuth /\ [][AuthNext]_vars

\* backups of every data string under every password, each encrypted and then
\* decrypted after every change of the file or of the password
BackupStep(p) ==
  \/ StartBackupRoundTrip(p)
  \/ EncryptBackup(p)
  \/ BackupFile(p)
  \/ DecryptBackup(p)

BackupNext == \E p \in {"c1"} : BackupStep(p)

SpecBackup == InitWebhooks /\ [][BackupNext]_vars

(***************************************************************************)
(* Properties                                                              *)
(***************************************************************************)
\* p takes a step of a request of kind op
StepOf(p, op) == req[p].op = op /\ pc'[p] # pc[p]

\* C1: whatever setPrimaryWallet calls of a user are in flight or have completed,
\* a reader (getUserWallets) is never answered more than one primary wallet.
C1_AtMostOnePrimary ==
  (res.op = "getUserWallets" /\ res.code = 200) => res.primaries <= 1

\* C2: the user's wallets had a primary before any setPrimaryWallet call; a reader
\* is never answered wallets none of which is primary, neither between the two
\* UPDATEs of a call nor after a call whose second UPDATE failed.
C2_SetPrimaryAtomic ==
  (res.op = "getUserWallets" /\ res.code = 200 /\ res.rows > 0) => res.primaries >= 1

\* C6: with no call in flight, every user with an active wallet has exactly one
\* active primary wallet.
C6_ExactlyOnePrimary ==
  (\A p \in Procs : pc[p] = "idle")
    => \A u \in Users :
         ActiveOf(wallets, u) # {}
           => Cardinality(PrimariesOf(wallets, u) \cap ActiveOf(wallets, u)) = 1

\* C7: no two wallets that are not deleted have the same owner and name; no step
\* of a createWallet call inserts while the owner has a wallet of that name, and
\* both the existence check and the insert then end the call with an error.
C7_NamesDistinct ==
  \A i, j \in DOMAIN wallets :
    (/\ i # j
     /\ wallets[i].status # "deleted"
     /\ wallets[j].status # "deleted"
     /\ wallets[i].user_id = wallets[j].user_id)
      => wallets[i].wallet_name # wallets[j].wallet_name

C7_UniqueNames ==
  /\ []C7_NamesDistinct
  /\ [][\A p \in Procs :
          (/\ StepOf(p, "createWallet")
           /\ pc[p] \in {"cw_existing", "cw_count", "cw_insert"}
           /\ ExistingWallet(wallets, req[p].user, req[p].walletName) # {})
            => /\ wallets' = wallets
               /\ (pc[p] # "cw_count") => (pc'[p] = "idle" /\ res'.code = 400)]_vars

\* a createWallet was refused for a name its owner has in use, the table unchanged
C7_Witness ==
  /\ res.op = "createWallet"
  /\ res.code = 400
  /\ res.message = "Wallet with this name already exists"
  /\ Len(wallets) = 1
  /\ \A p \in Procs : pc[p] = "idle"

\* C9: with one request at a time, createWallet inserts a primary wallet exactly
\* when the user has no wallet, returns the flag it inserted, and no step of it
\* changes a wallet that existed before the call.
C9_FirstWalletPrimary ==
  [][\A p \in Procs :
       StepOf(p, "createWallet")
         => /\ \A i \in DOMAIN wallets :
                 (i # loc[p].walletId) => wallets'[i] = wallets[i]
            /\ (Len(wallets') = Len(wallets) + 1)
                 => wallets'[Len(wallets')].is_primary
                      = (WalletsOf(wallets, req[p].user) = {})
            /\ (res'.code = 201)
                 => res'.isPrimary
                      = (WalletsOf(wallets', req[p].user) = {loc[p].walletId})]_vars

\* the second wallet of a user was returned not primary, the first is still primary
C9_Witness ==
  /\ res.op = "createWallet"
  /\ res.code = 201
  /\ ~res.isPrimary
  /\ res.walletId = 2
  /\ wallets[1].user_id = wallets[2].user_id
  /\ wallets[1].is_primary
  /\ ~wallets[2].is_primary

\* C3: a transaction row whose status is confirmed or failed keeps that status
\* through every step of the lookup route.
C3_StatusMonotonic ==
  [][\A i \in DOMAIN txs :
       (txs[i].status \in {"confirmed", "failed"})
         => txs'[i].status = txs[i].status]_vars

\* sendUSDC proper: the steps of a send after the middleware and the validators
ServiceSteps == {"su_wallet", "su_gas", "su_transfer", "su_insert"}

AmountOverBalance(p) ==
  /\ req[p].op = "send"
  /\ req[p].walletId \in DOMAIN wallets
  /\ req[p].amount > wallets[req[p].walletId].balance_usdc

\* C4: no step of a send for an amount above the wallet's cached balance submits a
\* transfer, inserts a row, answers success or gets past the balance check; the
\* step of sendUSDC that reads the balance of the caller's wallet ends the call
\* with the insufficient-funds error (a failure of that query is the only other
\* way the step can end).
C4_NoSendOverBalance ==
  [][\A p \in Procs :
       (AmountOverBalance(p) /\ pc'[p] # pc[p])
         => /\ txs' = txs
            /\ chain' = chain
            /\ res'.code # 200
            /\ pc'[p] \notin {"su_gas", "su_transfer", "su_insert"}
            /\ (pc[p] = "su_wallet" /\ req[p].walletId \in ActiveOf(wallets, req[p].user))
                 => /\ pc'[p] = "idle"
                    /\ res'.code = 400
                    /\ res'.message \in {"Insufficient USDC balance", "query failed"}
                    /\ res'.chainCalls = {}]_vars

C4_Witness ==
  /\ res.op = "send"
  /\ res.message = "Insufficient USDC balance"
  /\ res.chainCalls = {}
  /\ \A p \in Procs : pc[p] = "idle"

\* the ceilings checkTransactionLimits reads for a tenant
DailyCeiling(t) == OrDefault(FeaturesConfig(t).dailyTransactionLimit, DefaultDailyLimit)

MonthlyCeiling(t) ==
  OrDefault(FeaturesConfig(t).monthlyTransactionLimit, DefaultMonthlyLimit)

\* C5: when a send that passed checkTransactionLimits records its transaction, the
\* user's totals under the tenant for the day and for the month are within the
\* ceilings.
C5_TotalsWithinCeilings ==
  [][\A p \in Procs :
       (/\ req[p].op = "send"
        /\ loc[p].limits = "passed"
        /\ Len(txs') = Len(txs) + 1
        /\ pc'[p] # pc[p])
         => /\ DailyTotal(txs', wallets, req[p].user, req[p].tenant, today)
                 <= DailyCeiling(req[p].tenant)
            /\ MonthlyTotal(txs', wallets, req[p].user, req[p].tenant, today)
                 <= MonthlyCeiling(req[p].tenant)]_vars

\* C8: a send whose recipient is not a well-formed address is never found past
\* the validators: it has made no chain call and holds no transaction hash.
C8_InvalidAddressRejected ==
  \A p \in Procs :
    (req[p].op = "send" /\ req[p].toAddress = BadAddress)
      => /\ pc[p] \in {"tl_daily", "tl_monthly", "tl_catch"}
         /\ loc[p].chainCalls = {}
         /\ loc[p].txHash = 0

\* such a send, having passed the limit check, was refused by the validators
C8_Witness ==
  /\ res.op = "send"
  /\ res.code = 400
  /\ "toAddress" \in res.errors
  /\ res.chainCalls = {}
  /\ txs = <<EarlierTx, FailedTx>>
  /\ chain = 2

\* the step of checkTransactionLimits that reads a total finds the ceiling exceeded
DailyExceeded(p) ==
  /\ pc[p] = "tl_daily"
  /\ DailyTotal(txs, wallets, req[p].user, req[p].tenant, loc[p].day) + req[p].amount
       > DailyCeiling(req[p].tenant)

MonthlyExceeded(p) ==
  /\ pc[p] = "tl_monthly"
  /\ MonthlyTotal(txs, wallets, req[p].user, req[p].tenant, loc[p].day) + req[p].amount
       > MonthlyCeiling(req[p].tenant)

DailyRejection(p) ==
  /\ pc'[p] = "idle"
  /\ res'.code = 400
  /\ res'.message = "Daily transaction limit would be exceeded"
  /\ res'.limit = DailyCeiling(req[p].tenant)
  /\ res'.used = DailyTotal(txs, wallets, req[p].user, req[p].tenant, loc[p].day)
  /\ res'.remaining = res'.limit - res'.used
  /\ res'.chainCalls = {}

MonthlyRejection(p) ==
  /\ pc'[p] = "idle"
  /\ res'.code = 400
  /\ res'.message = "Monthly transaction limit would be exceeded"
  /\ res'.limit = MonthlyCeiling(req[p].tenant)
  /\ res'.used = MonthlyTotal(txs, wallets, req[p].user, req[p].tenant, loc[p].day)
  /\ res'.remaining = res'.limit - res'.used
  /\ res'.chainCalls = {}

OwnershipSteps == {"gwr_select", "su_wallet", "th_verify", "sp_verify", "gt_select",
                   "uc_update", "dc_delete"}

\* the id the request of p names
TargetOf(p) ==
  IF req[p].op = "getTransaction" THEN req[p].txHash
  ELSE IF req[p].op \in {"updateContact", "deleteContact"} THEN req[p].contactId
  ELSE req[p].walletId

\* the target of the request of p exists and belongs to its caller
TargetOwned(p) ==
  IF req[p].op = "getTransaction"
    THEN \E i \in DOMAIN txs : /\ txs[i].transaction_hash = req[p].txHash
                                /\ wallets[txs[i].wallet_id].user_id = req[p].user
  ELSE IF req[p].op \in {"updateContact", "deleteContact"}
    THEN \E r \in db.contacts : r.id = req[p].contactId /\ r.user_id = req[p].user
  ELSE /\ req[p].walletId \in DOMAIN wallets
       /\ wallets[req[p].walletId].user_id = req[p].user

\* the refusal of each operation, which depends on nothing but the operation
\* and the id the request named
Refusal(op, id) ==
  [NoRes EXCEPT !.op = op, !.target = id,
     !.code = (IF op \in {"getWallet", "getTransaction"} THEN 404 ELSE 400),
     !.message = (IF op = "getTransaction"
                    THEN "Transaction not found or access denied"
                  ELSE IF op \in {"updateContact", "deleteContact"}
                    THEN "Contact not found or access denied"
                  ELSE "Wallet not found or access denied")]

\* C11: when getWallet, sendUSDC, getTransactionHistory, setPrimaryWallet, the
\* transaction lookup, updateContact or deleteContact looks up a target that is
\* not the caller's, the answer is the same refusal whether the target exists
\* (and is another user's) or does not exist, and nothing stored changes.  The
\* lookup is taken to succeed as a query: a failed query is answered with the
\* error of the database for absent and foreign targets alike.
C11_ForeignAsAbsent ==
  [][\A p \in Procs :
       (/\ pc[p] \in OwnershipSteps
        /\ pc'[p] # pc[p]
        /\ ~TargetOwned(p)
        /\ res'.message # "query failed")
         => /\ res' = Refusal(req[p].op, TargetOf(p))
            /\ pc'[p] = "idle"
            /\ UNCHANGED <<wallets, txs, chain, db, posts>>]_vars

\* a request of the second user for the wallet of the first was refused
C11_Witness ==
  /\ res = Refusal("getWallet", 1)
  /\ 1 \in DOMAIN wallets
  /\ wallets[1].user_id = "u1"
  /\ wallets[1].status = "active"

(***************************************************************************)
(* Webhook fan-out and delivery logging                                    *)
(***************************************************************************)
\* the registrations a publish of p is owed to: those of the client that are
\* active and subscribed to the event
Owed(p) ==
  {i \in DOMAIN db.webhooks :
     /\ db.webhooks[i].client_id = req[p].clientId
     /\ db.webhooks[i].status = "active"
     /\ req[p].event \in db.webhooks[i].events}

\* the POST the delivery step of p sends
PostOf(p) == WebhookPost(db.webhooks[Head(loc[p].hooks)], req[p].event)

AttemptLog(p) ==
  [webhook_id |-> Head(loc[p].hooks), event |-> req[p].event,
   status |-> (IF loc[p].posted /\ loc[p].response \in 200..299
                 THEN "success" ELSE "failed"),
   status_code |-> loc[p].response]

\* a publish attempts no registration twice and sends at most one POST per attempt
AtMostOneAttempt(p) ==
  /\ (pc[p] = "wh_post" /\ pc'[p] # pc[p])
       => /\ Head(loc[p].hooks) \notin loc[p].done
          /\ posts' \in {posts, Append(posts, PostOf(p))}
          /\ pc'[p] = "wh_log"
          /\ db' = db
  /\ (pc[p] = "wh_log" /\ pc'[p] = "wh_post")
       => Head(loc'[p].hooks) \notin loc'[p].done
  /\ (pc[p] \notin {"wh_post", "wh_log"} /\ pc'[p] # pc[p])
       => posts' = posts /\ db' = db

\* C13 as stated: at most one attempt per publish and matching webhook, and
\* every attempt leaves exactly one webhook_logs row, 'success' with the HTTP
\* status when the POST succeeded, else 'failed' with the response status or 0.
C13_EveryAttemptLogged ==
  [][\A p \in Procs :
       /\ AtMostOneAttempt(p)
       /\ (pc[p] = "wh_log" /\ pc'[p] # pc[p])
            => db'.webhook_logs = Append(db.webhook_logs, AttemptLog(p))]_vars

\* C13, amended: at most one attempt per publish and matching webhook, and every
\* attempt leaves at most one webhook_logs row: the row that tells its outcome
\* when the INSERT succeeds, none when the INSERT fails.
C13_AttemptLoggedAtMostOnce ==
  [][\A p \in Procs :
       /\ AtMostOneAttempt(p)
       /\ (pc[p] = "wh_log" /\ pc'[p] # pc[p])
            => db'.webhook_logs \in {db.webhook_logs,
                                     Append(db.webhook_logs, AttemptLog(p))}]_vars

\* a POST that was answered 200 is logged as success, and an attempt without a
\* response as failed with status code 0
C13_Witness ==
  /\ Len(db.webhook_logs) = 2
  /\ Len(posts) >= 1
  /\ \E i, j \in DOMAIN db.webhook_logs :
       /\ db.webhook_logs[i].status = "success"
       /\ db.webhook_logs[i].status_code = 200
       /\ db.webhook_logs[j].status = "failed"
       /\ db.webhook_logs[j].status_code = 0

(***************************************************************************)
(* The transaction row of a send                                           *)
(***************************************************************************)
\* rows of transactions with hash h
RowsWithHash(ts, h) == {i \in DOMAIN ts : ts[i].transaction_hash = h}

\* C14: a send is answered with success only by the step that inserts its row,
\* which adds exactly one row: keyed by the hash the transfer returned, of type
\* 'send', status 'pending', no confirmations, after no chain call other than
\* the gas check and the transfer (it does not wait for the confirmation); and a
\* transfer call that fails or times out ends the send with no row added.
C14_PendingRowPerTransfer ==
  [][\A p \in Procs :
       /\ (req[p].op = "send" /\ pc'[p] = "idle" /\ pc[p] # "idle"
              /\ res'.code = 200)
            => /\ pc[p] = "su_insert"
               /\ Len(txs') = Len(txs) + 1
               /\ SubSeq(txs', 1, Len(txs)) = txs
               /\ res'.txHash = loc[p].txHash
               /\ res'.status = "pending"
               /\ res'.chainCalls = {"getETHBalance", "sendUSDC"}
               /\ RowsWithHash(txs', loc[p].txHash) = {Len(txs')}
               /\ txs'[Len(txs')].wallet_id = req[p].walletId
               /\ txs'[Len(txs')].amount = req[p].amount
               /\ txs'[Len(txs')].transaction_type = "send"
               /\ txs'[Len(txs')].status = "pending"
               /\ txs'[Len(txs')].confirmations = 0
       /\ (pc[p] = "su_transfer" /\ pc'[p] # "su_insert" /\ pc'[p] # pc[p])
            => /\ txs' = txs
               /\ pc'[p] = "idle"
               /\ res'.code = 400
       /\ (pc[p] = "su_transfer" /\ pc'[p] = "su_insert")
            => /\ chain' = chain + 1
               /\ loc'[p].txHash = chain'
               /\ txs' = txs]_vars

\* a send was answered with success and the last row is its pending row
C14_Witness ==
  /\ res.op = "send"
  /\ res.code = 200
  /\ res.status = "pending"
  /\ Len(txs) > 0
  /\ txs[Len(txs)].transaction_hash = res.txHash
  /\ txs[Len(txs)].status = "pending"
  /\ txs[Len(txs)].transaction_type = "send"

(***************************************************************************)
(* Concurrent balance refreshes                                            *)
(***************************************************************************)
\* no other call is refreshing the wallet that p refreshes
LastRefresh(p) ==
  \A q \in Procs \ {p} :
    pc[q] \in {"ub_select", "ub_chain", "ub_update"} => loc[q].walletId # loc[p].walletId

\* the balance the most recent chain query for the wallet of p returned
MostRecentRead(p) == IF loc[p].stale THEN loc[p].latest ELSE loc[p].balance

\* C15: when the last of the concurrent updateWalletBalance calls on a wallet
\* completes its write, the cached balance_usdc is the balance that the most
\* recent chain query among them returned.
C15_ConvergesToMostRecentRead ==
  [][\A p \in Procs :
       (/\ pc[p] = "ub_update"
        /\ pc'[p] = "idle"
        /\ res'.code = 200
        /\ LastRefresh(p))
         => wallets'[loc[p].walletId].balance_usdc = MostRecentRead(p)]_vars

(***************************************************************************)
(* Tenant resolution and the feature gate                                  *)
(***************************************************************************)
\* the active tenants whose subdomain is the first label of the host of p, when
\* the host has a first label and it is not reserved
BySubdomain(p) ==
  {i \in DOMAIN db.tenants :
     /\ Len(req[p].host) >= 2
     /\ req[p].host[1] # "www"
     /\ req[p].host[1] # "api"
     /\ db.tenants[i].subdomain = req[p].host[1]
     /\ db.tenants[i].is_active}

\* the active tenants whose custom domain is the host of p
ByCustomDomain(p) ==
  {i \in DOMAIN db.tenants :
     db.tenants[i].custom_domain = req[p].host /\ db.tenants[i].is_active}

\* the tenant context of p is c: the tenant row, or none when c is empty
ResolvedAs(p, c) ==
  /\ pc'[p] = "wl_gate"
  /\ IF c = {} THEN loc'[p].client = 0 ELSE loc'[p].client \in c

\* C16: the gate lets the request through to its handler when the request has no
\* tenant, and with a tenant exactly when the tenant's feature list is present
\* and holds the feature; otherwise it answers 403 and the handler does not run.
C16_FeatureGate ==
  [][\A p \in Procs :
       (pc[p] = "wl_gate" /\ pc'[p] # pc[p])
         => LET c == loc[p].client
                permitted ==
                  \/ c = 0
                  \/ /\ db.tenants[c].features_config.present
                     /\ db.tenants[c].features_config.hasFeatures
                     /\ req[p].feature \in db.tenants[c].features_config.features
            IN IF permitted
                 THEN res'.next /\ res'.code = 200
                 ELSE /\ ~res'.next
                      /\ res'.code = 403
                      /\ res'.message = FeatureDenied(req[p].feature)]_vars

\* a tenant without a feature list was refused a gated feature
C16_Witness ==
  /\ res.op = "gated"
  /\ res.code = 403
  /\ ~res.next
  /\ res.client = "t2"

AdmittingKeys(p) ==
  {i \in DOMAIN db.api_keys :
     /\ db.api_keys[i].api_key = req[p].apiKey
     /\ db.api_keys[i].is_active
     /\ (db.api_keys[i].expires_at = 0 \/ db.api_keys[i].expires_at > today)
     /\ \E j \in DOMAIN db.tenants :
          /\ db.tenants[j].id = db.api_keys[i].white_label_client_id
          /\ db.tenants[j].is_active
     /\ db.api_keys[i].api_secret_hash = SecretHash(req[p].apiSecret)}

\* C18: authenticateApiKey lets a request through to its handler only if the
\* supplied key is an active, unexpired key of an active tenant and the supplied
\* secret is the one stored for that key; otherwise the handler does not run.
C18_KeyAndSecretRequired ==
  [][\A p \in Procs :
       (req[p].op = "apiRequest" /\ pc[p] # "idle" /\ pc'[p] = "idle" /\ res'.next)
         => AdmittingKeys(p) # {}]_vars

\* C19: behind authenticateToken the handler runs only for a token that
\* verifies and whose user is in the table with status 'active'; a missing
\* token is answered 401, a token that fails verification 403, a verified token
\* whose user is suspended, deleted or absent 401, a failed user lookup 403, and
\* in none of these cases does the handler run.
C19_TokenAndActiveUser ==
  [][\A p \in Procs :
       /\ (pc[p] = "at_verify" /\ pc'[p] # pc[p])
            => IF req[p].token.kind = "none"
                 THEN res'.code = 401 /\ ~res'.next /\ pc'[p] = "idle"
               ELSE IF req[p].token.kind # "signed"
                 THEN res'.code = 403 /\ ~res'.next /\ pc'[p] = "idle"
               ELSE pc'[p] = "at_user" /\ res' = NoRes
       /\ (pc[p] = "at_user" /\ pc'[p] # pc[p])
            => /\ pc'[p] = "idle"
               /\ IF QueryFails(p)
                    THEN res'.code = 403 /\ ~res'.next
                  ELSE IF \E r \in db.users :
                            r.id = req[p].token.userId /\ r.status = "active"
                    THEN res'.code = 200 /\ res'.next
                  ELSE res'.code = 401 /\ ~res'.next
       /\ (req[p].op = "authenticated" /\ pc'[p] # pc[p] /\ res'.next)
            => /\ pc[p] = "at_user"
               /\ req[p].token.kind = "signed"
               /\ \E r \in db.users :
                    r.id = req[p].token.userId /\ r.status = "active"]_vars

\* a verified token of a user who is not active was answered 401
C19_Witness ==
  /\ res.op = "authenticated"
  /\ res.code = 401
  /\ res.message = "Invalid or expired token"
  /\ ~res.next
  /\ \E r \in db.users : r.id = "u2" /\ r.status = "suspended"

(***************************************************************************)
(* Error responses                                                         *)
(***************************************************************************)
\* C20: in production no response to a request, whether sent from the catch of a
\* route handler or by the global error handler, carries the message of an
\* internal error.
C20_NoInternalDetailInProduction == env = "production" => ~res.internal

(***************************************************************************)
(* Backup encryption                                                       *)
(***************************************************************************)
\* C21: decrypting an unchanged backup with the password it was encrypted with
\* returns the data; decrypting with another password, or after the ciphertext,
\* the salt or the auth tag was modified, fails with the decryption error and
\* returns no value.
C21_RoundTripOrError ==
  [][\A p \in Procs :
       (pc[p] = "bk_decrypt" /\ pc'[p] # pc[p])
         => /\ loc[p].changed = "none"
                 => res'.code = 200 /\ res'.value = req[p].data
            /\ loc[p].changed \in {"password", "ciphertext", "salt", "authTag", "authTagCut"}
                 => /\ res'.code = 400
                    /\ res'.value = ""
                    /\ res'.message =
                         "Failed to decrypt backup - invalid password or corrupted data"]_vars

(***************************************************************************)
(* Webhook signatures                                                      *)
(***************************************************************************)
\* the secret of the registration a POST went to
SecretOf(post) == db.webhooks[post.webhook_id].secret

C23_WrittenWhenStatusOrConfirmationsDiffer ==
  [][\A p \in Procs :
       /\ (pc[p] = "gt_chain" /\ pc'[p] = "idle" /\ res'.code = 200)
            => /\ res'.status = loc[p].status
               /\ res'.confirmations = loc[p].confirmations
               /\ txs' = txs
       /\ (pc[p] = "gt_update" /\ pc'[p] = "idle" /\ res'.code = 200)
            => \A i \in DOMAIN txs :
                 txs[i].transaction_hash = req[p].txHash
                   => /\ txs'[i].status = res'.status
                      /\ txs'[i].confirmations = res'.confirmations
                      /\ txs'[i].confirmed_at = (res'.status = "confirmed")]_vars

(***************************************************************************)
(* sendUSDC: the gas check                                                 *)
(***************************************************************************)
\* the ETH balance the gas step of p's send was given, -1 if the call failed
GasReported(p) == IF pc'[p] = "idle" THEN res'.ethBalance ELSE loc'[p].ethBalance

\* C24: the gas step of a send runs only for an amount within the wallet's cached
\* balance and before any transfer of that send; when the ETH balance it is given
\* is below the minimum the send ends there with the insufficient-gas error,
\* no transfer submitted and no row inserted, and when it is not below the
\* minimum the send goes on to the transfer.
C24_GasCheck ==
  [][\A p \in Procs :
       (pc[p] = "su_gas" /\ pc'[p] # pc[p])
         => /\ req[p].amount <= wallets[req[p].walletId].balance_usdc
            /\ "sendUSDC" \notin loc[p].chainCalls
            /\ (GasReported(p) \in 0..(MinGas - 1))
                 => /\ pc'[p] = "idle"
                    /\ res'.code = 400
                    /\ res'.message = "Insufficient ETH balance for gas fees"
                    /\ res'.chainCalls = {"getETHBalance"}
                    /\ chain' = chain
                    /\ txs' = txs
            /\ (GasReported(p) >= MinGas) => pc'[p] = "su_transfer"]_vars

\* a send ended on the gas check with a balance just below the minimum, nothing
\* submitted and nothing recorded
C24_Witness ==
  /\ res.op = "send"
  /\ res.message = "Insufficient ETH balance for gas fees"
  /\ res.ethBalance = MinGas - 1
  /\ chain = 2
  /\ Len(txs) = 2

(***************************************************************************)
(* sendUSDC: the cached balance                                            *)
(***************************************************************************)
\* the rows of sends of wallet w recorded pending since the initial state
PendingSends(w) ==
  {i \in DOMAIN txs : i > 2 /\ txs[i].wallet_id = w /\ txs[i].status = "pending"}

\* C25: no step of a send changes a wallet row, and the balance step of a send
\* on the caller's wallet lets it through exactly when the amount is within
\* the cached balance, whatever sends are in flight or recorded.
C25_BalanceIsPreCheckOnly ==
  [][\A p \in Procs :
       (req[p].op = "send" /\ pc'[p] # pc[p])
         => /\ wallets' = wallets
            /\ (pc[p] = "su_wallet" /\ req[p].walletId \in ActiveOf(wallets, req[p].user))
                 => (pc'[p] = "su_gas"
                       <=> req[p].amount <= wallets[req[p].walletId].balance_usdc)]_vars

\* two sends of one wallet, each within the cached balance and together above
\* it, are both recorded pending, and the cached balance is what it was
C25_Witness ==
  \E i, j \in PendingSends(1) :
    /\ i # j
    /\ txs[i].amount <= wallets[1].balance_usdc
    /\ txs[j].amount <= wallets[1].balance_usdc
    /\ txs[i].amount + txs[j].amount > wallets[1].balance_usdc
    /\ wallets[1].balance_usdc = FundedBalance

(***************************************************************************)
(* checkTransactionLimits: what it lets through                            *)
(***************************************************************************)
LimitSteps == {"tl_daily", "tl_monthly", "tl_catch"}

\* p's request is handed on to the validators of the route: it is in sendUSDC
\* or was refused by the validators
PassedOn(p, limits) ==
  \/ pc'[p] = "su_wallet" /\ loc'[p].limits = limits
  \/ pc'[p] = "idle" /\ res'.message = "Validation failed"

\* C28: a failure of a query of checkTransactionLimits is caught and the request
\* handed on without an answer, no step of the middleware answers with anything
\* but a limit refusal, and the limit queries run only for a request with a
\* client that has a features configuration: a request without client or
\* with a client without configuration is handed on unchecked.
C28_LimitsFailOpen ==
  [][\A p \in Procs :
       /\ (pc[p] \in {"tl_daily", "tl_monthly"} /\ QueryFails(p)) => pc'[p] = "tl_catch"
       /\ (pc[p] = "tl_catch" /\ pc'[p] # pc[p]) => PassedOn(p, "skipped")
       /\ (pc[p] \in LimitSteps /\ pc'[p] = "idle" /\ res'.message # "Validation failed")
            => /\ res'.code = 400
               /\ res'.message \in {"Daily transaction limit would be exceeded",
                                    "Monthly transaction limit would be exceeded"}
       /\ (pc[p] = "idle" /\ pc'[p] \in LimitSteps)
            => req'[p].tenant \in TenantIds
       /\ (pc[p] = "idle" /\ pc'[p] = "su_wallet"
             /\ req'[p].tenant \in {Null, NoConfigTenant})
            => loc'[p].limits = "none"]_vars

\* one send was handed on after a failed limit query while another, of a client
\* without features configuration, was handed on unchecked
C28_Witness ==
  \E p, q \in Procs :
    /\ pc[p] = "su_wallet" /\ loc[p].limits = "skipped" /\ req[p].tenant \in TenantIds
    /\ pc[q] = "su_wallet" /\ loc[q].limits = "none" /\ req[q].tenant = NoConfigTenant

(***************************************************************************)
(* createWallet: what a failed call leaves behind                          *)
(***************************************************************************)
\* C29: a createWallet call that ends in an error leaves no wallet row it
\* inserted, and no row of the caller under the name it asked for unless the
\* call was refused for that name.
C29_CreateWalletAllOrNothing ==
  [][\A p \in Procs :
       (req[p].op = "createWallet" /\ pc'[p] = "idle" /\ res'.code # 201)
         => /\ loc[p].walletId \notin DOMAIN wallets'
            /\ (pc[p] \in {"ub_select", "ub_chain", "ub_update"})
                 => ExistingWallet(wallets', req[p].user, req[p].walletName) = {}]_vars

(***************************************************************************)
(* restoreFromBackup: repeated restores                                    *)
(***************************************************************************)
RestoreSteps == {"rs_existing", "rs_insert"}

\* the entry of the backup the restore of p is at
EntryOf(p) == req[p].backup[loc[p].i]

\* what every step of a restore does: an entry whose address is stored is
\* skipped, a row is added only for the entry at hand, under the caller, not
\* primary and counted, a step that adds none counts none, the call goes on to
\* the next entry or returns, and it returns success with
\* restoredCount <= totalInBackup
RestoreStepwise(p) ==
  /\ (pc[p] = "rs_existing" /\ Missing(wallets, req[p].backup) = {})
       => pc'[p] # "rs_insert"
  /\ \/ /\ wallets' = wallets
        /\ pc'[p] = "idle" => res'.restoredCount = loc[p].restored
        /\ pc'[p] = "rs_existing" => loc'[p].restored = loc[p].restored
     \/ /\ pc[p] = "rs_insert"
        /\ loc[p].i \in Missing(wallets, req[p].backup)
        /\ wallets' = Append(wallets, wallets'[Len(wallets')])
        /\ wallets'[Len(wallets')].address = EntryOf(p).address
        /\ wallets'[Len(wallets')].wallet_name = EntryOf(p).walletName
        /\ wallets'[Len(wallets')].user_id = req[p].user
        /\ ~wallets'[Len(wallets')].is_primary
        /\ pc'[p] = "idle" => res'.restoredCount = loc[p].restored + 1
        /\ pc'[p] = "rs_existing" => loc'[p].restored = loc[p].restored + 1
  /\ \/ pc'[p] = "rs_insert" /\ loc'[p].i = loc[p].i
     \/ pc'[p] = "rs_existing" /\ loc'[p].i = loc[p].i + 1
     \/ /\ pc'[p] = "idle"
        /\ loc[p].i = Len(req[p].backup)
        /\ res'.code = 200
        /\ res'.totalInBackup = Len(req[p].backup)
        /\ res'.restoredCount <= res'.totalInBackup

\* C30 as stated: a restore of the backup that follows a completed restore of it
\* returns restoredCount = 0, and every step of a restore keeps to the loop.
C30_SecondRestoreInsertsNothing ==
  [][\A p \in Procs :
       (pc[p] \in RestoreSteps /\ pc'[p] # pc[p])
         => /\ RestoreStepwise(p)
            /\ (loc[p].second /\ pc'[p] = "idle") => res'.restoredCount = 0]_vars

\* C30: a restore of a backup all of whose addresses were stored when it began
\* returns restoredCount = 0 and adds no row, and every step of a restore keeps
\* to the loop.
C30_RestoreOfStoredInsertsNothing ==
  [][\A p \in Procs :
       (pc[p] \in RestoreSteps /\ pc'[p] # pc[p])
         => /\ RestoreStepwise(p)
            /\ loc[p].present => wallets' = wallets
            /\ (loc[p].present /\ pc'[p] = "idle") => res'.restoredCount = 0]_vars

\* the second restore of the backup, begun with both addresses stored, is at
\* its last entry having restored none
C30_Witness ==
  \E p \in Procs :
    /\ pc[p] = "rs_existing"
    /\ loc[p].second
    /\ loc[p].present
    /\ loc[p].i = Len(req[p].backup)
    /\ loc[p].restored = 0
    /\ Len(wallets) = 2

(***************************************************************************)
(* Two-factor authentication                                               *)
(***************************************************************************)
\* C27: every user whose two_factor_enabled is true has a stored secret, and it
\* is one for which verify-2fa was given a valid code; a setup-2fa step enables
\* nobody's 2FA and leaves the secret of a user whose 2FA is enabled alone.
C27_EnabledSecretWasVerified ==
  \A r \in db.users :
    r.two_factor_enabled
      => /\ r.two_factor_secret \in TwoFactorSecrets
         /\ r.two_factor_secret \in r.verified

(***************************************************************************)
(* Login                                                                   *)
(***************************************************************************)
\* the row of the user p's login names, if there is one
LoginUser(p) == UserByEmail(db.users, req[p].user)

\* the credentials of p's login are those of an active user of the table
GoodCredentials(p) ==
  \E r \in LoginUser(p) :
    r.status = "active" /\ r.password_hash = <<"bcrypt", req[p].password>>

\* C26: a step that answers with a token is the last step of a login whose user
\* is in the table, is active, has the password of the request and, if 2FA is
\* enabled, has a stored secret whose current code the request carries; a login
\* with good credentials, 2FA enabled and no code is answered "2FA code
\* required" with no token and the users table as it was, unless its query
\* fails, which is answered with an error, no token and the table as it was.
C26_TokenOnlyAfterAllChecks ==
  [][\A p \in Procs :
       /\ (pc'[p] = "idle" /\ pc[p] # "idle" /\ res'.token # Null)
            => /\ req[p].op = "login"
               /\ res'.token = req[p].user
               /\ GoodCredentials(p)
               /\ \A r \in LoginUser(p) :
                    r.two_factor_enabled
                      => /\ req[p].twoFactorCode # ""
                         /\ req[p].twoFactorCode = Totp(r.two_factor_secret)
       /\ (/\ pc[p] = "lg_select" /\ pc'[p] # pc[p]
           /\ GoodCredentials(p)
           /\ \A r \in LoginUser(p) : r.two_factor_enabled
           /\ req[p].twoFactorCode = "")
            => /\ pc'[p] = "idle"
               /\ res'.token = Null
               /\ db' = db
               /\ \/ res'.code = 200 /\ res'.message = "2FA code required"
                  \/ QueryFails(p) /\ res'.code = 500]_vars

\* a user whose 2FA is enabled was issued a token and last_login was written
C26_Witness ==
  /\ res.op = "login"
  /\ res.token # Null
  /\ \E r \in db.users :
       /\ r.id = res.token
       /\ r.two_factor_enabled
       /\ r.last_login = today

====
